---- MODULE Spec2Model ----
(***************************************************************************)
(* Model of testsuite/forge.py: the Forge run-orchestration core.         *)
(*                                                                         *)
(* Python bytes are sequences of byte values 0..255, Python str values     *)
(* are sequences of Unicode code points; bytes.decode() is the UTF-8       *)
(* decoder and may fail.  An attribute that was never assigned is Unset,   *)
(* Python's None is None.                                                  *)
(***************************************************************************)
EXTENDS Integers, Sequences, FiniteSets, TLC

VARIABLES
    mode,            \* forge_runner_mode: which ForgeRunner.run executes
    keep_args,       \* context.keep_args is non-empty
    ctx_procs,       \* names context.processes.processes() yields
    pc,              \* position inside run()
    state,           \* forge_result.state
    output,          \* forge_result.output
    start_time,      \* forge_result.start_time
    end_time,        \* forge_result.end_time
    clock,           \* what context.time.now() last returned
    now_calls,       \* the calls of context.time.now(), by where they are made
    exc,             \* the exception propagating out of run()
    in_block,        \* the exception was raised inside the with-block body
    child,           \* the child process of the last shell.run
    result,          \* the RunResult the last shell.run returned
    forge_logs,      \* K8sForgeRunner.run: forge_logs
    kstate,          \* K8sForgeRunner.run: local variable state
    attempts,        \* K8sForgeRunner.run: local variable attempts
    forge_status,    \* K8sForgeRunner.run: forge_status of the last poll
    polls,           \* number of phase polls issued
    prefix_running,  \* every answer before the last one was b"running", exit 0
    sys_procs,       \* names psutil.process_iter() yielded at cleanup
    killed,          \* processes on which kill() was called
    pf,              \* port_forward_process: unstarted / running / exited
    pf_terminated,   \* port_forward_process.terminate() was called
    pf_joined,       \* port_forward_process.join() returned
    calls,           \* the external commands issued, repeats of one recorded once
    opt,             \* the test command: its options and what preflight found
    written,         \* the files filesystem.write wrote, in order
    rendered         \* what the formatter applied last returned

vars ==
    << mode, keep_args, ctx_procs, pc, state, output, start_time, end_time,
       clock, now_calls, exc, in_block, child, result, forge_logs, kstate,
       attempts,
       forge_status, polls, prefix_running, sys_procs, killed, pf,
       pf_terminated, pf_joined, calls, opt, written, rendered >>

----------------------------------------------------------------------------
(* Bounds of the model.                                                    *)

\* phase polls of one run that Spec follows
MaxPolls == 3
\* phase polls of one run that SpecPoll follows: past the attempt budget
LongPolls == 102
\* processes psutil.process_iter() yields at cleanup
MaxProcs == 2

----------------------------------------------------------------------------
(* String and bytes literals, as code points / byte values.               *)

\* the words the phase of the pod is searched for
PhaseWord ==
      \* "running"
    [ running |->
        <<114, 117, 110, 110, 105, 110, 103>>,
      \* "succeeded"
      succeeded |->
        <<115, 117, 99, 99, 101, 101, 100, 101, 100>>,
      \* "not"
      not |->
        <<110, 111, 116>>,
      \* "found"
      found |->
        <<102, 111, 117, 110, 100>> ]

\* answers of kubectl get pod -o jsonpath='{.status.phase}'
PhaseAnswer ==
      \* "running"
    [ running |->
        <<114, 117, 110, 110, 105, 110, 103>>,
      \* "'Running'"
      q_Running |->
        <<39, 82, 117, 110, 110, 105, 110, 103, 39>>,
      \* "succeeded"
      succeeded |->
        <<115, 117, 99, 99, 101, 101, 100, 101, 100>>,
      \* "'Succeeded'"
      q_Succeeded |->
        <<39, 83, 117, 99, 99, 101, 101, 100, 101, 100, 39>>,
      \* "notfound"
      notfound |->
        <<110, 111, 116, 102, 111, 117, 110, 100>>,
      \* "pod Not  Found"
      Not_Found |->
        <<112, 111, 100, 32, 78, 111, 116, 32, 32, 70, 111, 117, 110, 100>>,
      \* "'Failed'"
      q_Failed |->
        <<39, 70, 97, 105, 108, 101, 100, 39>>,
      \* "running succeeded"
      running_succeeded |->
        <<114, 117, 110, 110, 105, 110, 103, 32, 115, 117, 99, 99, 101, 101,
          100, 101, 100>> ]

\* what a child process writes: the one of FakeShell, a failing one
ChildOutput ==
      \* "output"
    [ output |->
        <<111, 117, 116, 112, 117, 116>>,
      \* "error"
      error |->
        <<101, 114, 114, 111, 114>> ]

\* names of processes
ProcName ==
      \* "kubectl"
    [ kubectl_word |->
        <<107, 117, 98, 101, 99, 116, 108>>,
      \* "kubectl"
      kubectl |->
        <<107, 117, 98, 101, 99, 116, 108>>,
      \* "concensus"
      concensus |->
        <<99, 111, 110, 99, 101, 110, 115, 117, 115>>,
      \* "kubectl-proxy"
      kubectl_proxy |->
        <<107, 117, 98, 101, 99, 116, 108, 45, 112, 114, 111, 120, 121>> ]

\* messages of the check with_context makes after its yield
ResultMsg ==
      \* "Forge result never entered terminal state"
    [ never_terminal |->
        <<70, 111, 114, 103, 101, 32, 114, 101, 115, 117, 108, 116, 32, 110,
          101, 118, 101, 114, 32, 101, 110, 116, 101, 114, 101, 100, 32, 116,
          101, 114, 109, 105, 110, 97, 108, 32, 115, 116, 97, 116, 101>>,
      \* "Forge result didnt record output"
      no_output |->
        <<70, 111, 114, 103, 101, 32, 114, 101, 115, 117, 108, 116, 32, 100,
          105, 100, 110, 116, 32, 114, 101, 99, 111, 114, 100, 32, 111, 117,
          116, 112, 117, 116>> ]

\* "'utf-8' codec can't decode"
M_codec_error ==
    <<39, 117, 116, 102, 45, 56, 39, 32, 99, 111, 100, 101, 99, 32, 99, 97,
      110, 39, 116, 32, 100, 101, 99, 111, 100, 101>>

\* "Exhausted attempt to get forge pod status"
M_exhausted ==
    <<69, 120, 104, 97, 117, 115, 116, 101, 100, 32, 97, 116, 116, 101, 109,
      112, 116, 32, 116, 111, 32, 103, 101, 116, 32, 102, 111, 114, 103, 101,
      32, 112, 111, 100, 32, 115, 116, 97, 116, 117, 115>>

----------------------------------------------------------------------------
(* Python values.                                                          *)

\* an attribute that was never assigned
Unset == <<-2>>
\* Python's None
None == <<-1>>
\* the result of a failed bytes.decode()
DecodeFail == <<-3>>
\* a datetime attribute that was never assigned
NoTime == -1

ForgeStates == {"RUNNING", "PASS", "FAIL", "SKIP", "EMPTY"}
TerminalStates == {"PASS", "FAIL", "SKIP"}

Exc(kind, msg) == [kind |-> kind, msg |-> msg]
NoExc == Exc("none", <<>>)
\* str(e)
Str(e) == e.msg

RunResult(exit_code, out) == [exit_code |-> exit_code, output |-> out]
NoResult == RunResult(0, Unset)

Child(spawned, returncode, out) ==
    [spawned |-> spawned, returncode |-> returncode, out |-> out]
NoChild == Child(FALSE, 0, Unset)

----------------------------------------------------------------------------
(* str and bytes operations.                                               *)

IsPrefixAt(sub, s, i) ==
    /\ i + Len(sub) - 1 <= Len(s)
    /\ SubSeq(s, i, i + Len(sub) - 1) = sub

\* Python's `sub in s` on str
Contains(sub, s) == \E i \in 1..(Len(s) + 1) : IsPrefixAt(sub, s, i)

\* str.lower() on one code point (ASCII and Latin-1 letters)
LowerChar(c) ==
    IF c \in 65..90 \/ c \in 192..214 \/ c \in 216..222 THEN c + 32 ELSE c

\* str.lower()
StrLower(s) == [i \in 1..Len(s) |-> LowerChar(s[i])]

\* the regular expression class \s
IsSpace(c) == c \in {9, 10, 11, 12, 13, 28, 29, 30, 31, 32, 133, 160}

\* re.findall(r"not\s*found", s, re.IGNORECASE) is non-empty
ReNotFound(s) ==
    LET t == StrLower(s)
    IN  \E i \in 1..Len(t) :
            /\ IsPrefixAt(PhaseWord.not, t, i)
            /\ \E j \in (i + 3)..(Len(t) + 1) :
                   /\ \A k \in (i + 3)..(j - 1) : IsSpace(t[k])
                   /\ IsPrefixAt(PhaseWord.found, t, j)

IsCont(b) == b \in 128..191

\* the width of the UTF-8 sequence at the head of b, 0 when it is ill-formed
Utf8Width(b) ==
    LET c == b[1]
        n == Len(b)
    IN  IF c < 128 THEN 1
        ELSE IF c \in 194..223 /\ n >= 2 /\ IsCont(b[2]) THEN 2
        ELSE IF /\ c \in 224..239 /\ n >= 3 /\ IsCont(b[2]) /\ IsCont(b[3])
                /\ (c = 224 => b[2] >= 160) /\ (c = 237 => b[2] <= 159) THEN 3
        ELSE IF /\ c \in 240..244 /\ n >= 4
                /\ IsCont(b[2]) /\ IsCont(b[3]) /\ IsCont(b[4])
                /\ (c = 240 => b[2] >= 144) /\ (c = 244 => b[2] <= 143) THEN 4
        ELSE 0

\* the code point of the UTF-8 sequence of width w at the head of b
Utf8Point(b, w) ==
    CASE w = 1 -> b[1]
      [] w = 2 -> (b[1] - 192) * 64 + (b[2] - 128)
      [] w = 3 -> (b[1] - 224) * 4096 + (b[2] - 128) * 64 + (b[3] - 128)
      [] OTHER -> (b[1] - 240) * 262144 + (b[2] - 128) * 4096
                  + (b[3] - 128) * 64 + (b[4] - 128)

RECURSIVE Utf8Decode(_)
\* bytes.decode("utf-8"): the str, or DecodeFail for UnicodeDecodeError.
\* A short b is decoded from its head on; a long one is cut in two at a
\* byte that starts a sequence (the last one at or before its middle: a
\* sequence has at most three continuation bytes) and is well-formed
\* exactly when both parts are.
Utf8Decode(b) ==
    IF b = <<>> THEN <<>>
    ELSE IF Len(b) < 8
    THEN LET w == Utf8Width(b)
             rest == Utf8Decode(SubSeq(b, w + 1, Len(b)))
         IN  IF w = 0 THEN DecodeFail
             ELSE IF rest = DecodeFail THEN DecodeFail
             ELSE <<Utf8Point(b, w)>> \o rest
    ELSE LET h == (Len(b) \div 2) + 1
             starts == {i \in (h - 3)..h : ~IsCont(b[i])}
             p == CHOOSE i \in starts : \A j \in starts : j <= i
             left == Utf8Decode(SubSeq(b, 1, p - 1))
             right == Utf8Decode(SubSeq(b, p, Len(b)))
         IN  IF starts = {} THEN DecodeFail
             ELSE IF left = DecodeFail \/ right = DecodeFail THEN DecodeFail
             ELSE left \o right

DecodeError == Exc("UnicodeDecodeError", M_codec_error)

----------------------------------------------------------------------------
(* RunResult and Shell.                                                    *)

Returned(v) == [raised |-> FALSE, exc |-> NoExc, value |-> v]
Raised(e) == [raised |-> TRUE, exc |-> e, value |-> Unset]

\* unwrap with the test `exit_code > 0`: a child killed by a signal (negative
\* return code) would pass for a success
unwrap_PositiveOnly(r) ==
    IF r.exit_code > 0
    THEN IF Utf8Decode(r.output) = DecodeFail
         THEN Raised(DecodeError)
         ELSE Raised(Exc("Exception", Utf8Decode(r.output)))
    ELSE Returned(r.output)

\* RunResult.unwrap()
unwrap(r) ==
    IF r.exit_code # 0
    THEN IF Utf8Decode(r.output) = DecodeFail
         THEN Raised(DecodeError)
         ELSE Raised(Exc("Exception", Utf8Decode(r.output)))
    ELSE Returned(r.output)

\* some chunk reader.read() may return while the child runs does not
\* decode; the chunks of one byte decide it: a chunk that does not decode
\* holds a byte that does not decode alone
SomeChunkUndecodable(out) ==
    \E i \in 1..Len(out) : Utf8Decode(SubSeq(out, i, i)) = DecodeFail

\* LocalShell.run(command, stream_output) for a child process c: the set of
\* its outcomes.  Popen raises when the program cannot be started; with
\* stream_output every chunk read before the child exits is decoded.
ShellRun(c, stream_output) ==
    IF ~c.spawned THEN {Raised(Exc("OSError", <<>>))}
    ELSE {Returned(RunResult(c.returncode, c.out))}
         \cup (IF stream_output /\ SomeChunkUndecodable(c.out)
               THEN {Raised(DecodeError)} ELSE {})

----------------------------------------------------------------------------
(* The inputs of a run.                                                    *)

\* attempts = 100
attempts_init == 100

\* a ForgeContext's processes: SystemProcesses enumerates psutil when it is
\* asked; any other Processes yields its own names (FakeProcesses yields
\* "concensus", a fake of a test may yield a kubectl)
CtxProcOptions ==
    { [kind |-> "system", names |-> <<>>],
      [kind |-> "fake", names |-> <<ProcName.concensus>>],
      [kind |-> "fake", names |-> <<ProcName.kubectl, ProcName.concensus>>] }

ProcNames == {ProcName.kubectl, ProcName.concensus, ProcName.kubectl_proxy}

\* what psutil.process_iter() may yield
SysProcOptions ==
    UNION { [1..n -> ProcNames] : n \in 0..MaxProcs }

\* the children LocalShell.run may run for the commands of the runners
RunnerChildren ==
      \* the test binary (cargo run -p forge-cli ...)
    [ local |->
        { Child(TRUE, rc, out) :
            rc \in {0, 1, -9},
            out \in { ChildOutput.output, <<>>, ChildOutput.error, <<255>>,
                      <<195, 169>> } }
        \cup {NoChild},
      \* a kubectl command whose RunResult the runner drops
      ignored |->
        { Child(TRUE, 0, ChildOutput.output),
          Child(TRUE, 1, ChildOutput.error), NoChild },
      \* kubectl logs -f
      logs |->
        { Child(TRUE, 0, ChildOutput.output), Child(TRUE, 0, <<255>>),
          Child(TRUE, 1, ChildOutput.error), NoChild },
      \* kubectl get pod -o jsonpath='{.status.phase}'
      phase |->
        { Child(TRUE, 0, out) :
            out \in { PhaseAnswer.running, PhaseAnswer.q_Running,
                      PhaseAnswer.running_succeeded, PhaseAnswer.succeeded,
                      PhaseAnswer.q_Succeeded, PhaseAnswer.notfound,
                      PhaseAnswer.Not_Found, PhaseAnswer.q_Failed,
                      <<255>> } }
        \cup {Child(TRUE, 1, PhaseAnswer.Not_Found), NoChild} ]

\* the test command has read no option: a runner is run on its own
NoOpt == [read |-> FALSE]

\* context.time.now(): the wall clock does not go backwards
Now(t) == {t, t + 1}

Init ==
    /\ mode \in {"local", "k8s"}
    /\ keep_args \in BOOLEAN
    /\ ctx_procs \in CtxProcOptions
    /\ pc = "start"
    /\ state = "Unset"
    /\ output = Unset
    /\ start_time = NoTime
    /\ end_time = NoTime
    /\ clock = 0
    /\ now_calls = <<>>
    /\ exc = NoExc
    /\ in_block = FALSE
    /\ child = NoChild
    /\ result = NoResult
    /\ forge_logs = Unset
    /\ kstate = "None"
    /\ attempts = 0
    /\ forge_status = Unset
    /\ polls = 0
    /\ prefix_running = TRUE
    /\ sys_procs = <<>>
    /\ killed = {}
    /\ pf = "unstarted"
    /\ pf_terminated = FALSE
    /\ pf_joined = FALSE
    /\ calls = <<>>
    /\ opt = NoOpt
    /\ written = <<>>
    /\ rendered = Unset

----------------------------------------------------------------------------
(* ForgeResult.with_context                                                *)

ctx_vars == <<mode, keep_args, ctx_procs>>
time_vars == <<clock, now_calls>>
res_vars == <<state, output, start_time, end_time>>
k8s_vars == <<forge_logs, kstate, attempts, forge_status, polls, prefix_running>>
proc_vars == <<sys_procs, killed, pf, pf_terminated, pf_joined>>
test_vars == <<opt, written, rendered>>

\* the command is recorded unless it repeats the last one
Issue(cmd) ==
    calls' = IF calls # <<>> /\ calls[Len(calls)] = cmd
             THEN calls ELSE Append(calls, cmd)

\* an exception leaves run() before the with-block is entered or after it is left
Propagate(e) ==
    /\ exc' = e
    /\ pc' = "raised"
    /\ UNCHANGED in_block

\* an exception raised by the body of the with-block: it is thrown into the
\* generator at its yield, which has no try/finally around it, so nothing of
\* the generator after the yield runs and the exception leaves run()
BlockRaise(e) ==
    /\ exc' = e
    /\ in_block' = TRUE
    /\ pc' = "raised"
    /\ UNCHANGED <<state, start_time, end_time, time_vars>>

\* with_context up to its yield, reading the clock a second time
WithContextEnter_ReadsTwice ==
    /\ pc = "enter"
    /\ state' = "RUNNING"
    /\ \E t \in Now(clock) : clock' = t /\ start_time' = t
    /\ now_calls' = now_calls \o <<"with_context", "with_context">>
    /\ pc' = IF mode = "local" THEN "l_body" ELSE "k_write"
    /\ UNCHANGED <<test_vars, calls, ctx_vars, output, end_time, exc,
                   in_block, child, result,
                   k8s_vars, proc_vars>>

\* with_context up to its yield
WithContextEnter ==
    /\ pc = "enter"
    /\ state' = "RUNNING"
    /\ \E t \in Now(clock) : clock' = t /\ start_time' = t
    /\ now_calls' = Append(now_calls, "with_context")
    /\ pc' = IF mode = "local" THEN "l_body" ELSE "k_write"
    /\ UNCHANGED <<test_vars, calls, ctx_vars, output, end_time, exc,
                   in_block, child, result,
                   k8s_vars, proc_vars>>

\* the check with_context makes after its yield
ExitCheck(st, out) ==
    IF st \notin TerminalStates THEN Exc("Exception", ResultMsg.never_terminal)
    ELSE IF out = Unset THEN Exc("AttributeError", <<>>)
    ELSE IF out = None THEN Exc("Exception", ResultMsg.no_output)
    ELSE NoExc

\* with_context after its yield without the stamp of end_time
WithContextExit_NoStamp ==
    /\ pc = "exit"
    /\ exc' = ExitCheck(state, output)
    /\ pc' = IF exc' # NoExc THEN "raised"
             ELSE IF mode = "local" THEN "l_cleanup" ELSE "returned"
    /\ UNCHANGED <<test_vars, calls, ctx_vars, res_vars, time_vars, in_block,
                   child, result,
                   k8s_vars, proc_vars>>

\* with_context after its yield, when the body ended normally; a local run
\* goes on to its cleanup, a cluster run returns
WithContextExit ==
    /\ pc = "exit"
    /\ \E t \in Now(clock) : clock' = t /\ end_time' = t
    /\ now_calls' = Append(now_calls, "with_context")
    /\ exc' = ExitCheck(state, output)
    /\ pc' = IF exc' # NoExc THEN "raised"
             ELSE IF mode = "local" THEN "l_cleanup" ELSE "returned"
    /\ UNCHANGED <<test_vars, calls, ctx_vars, state, output, start_time,
                   in_block, child,
                   result, k8s_vars, proc_vars>>

----------------------------------------------------------------------------
(* LocalForgeRunner.run                                                    *)

\* setrlimit, set_start_method and the start of the port-forward process;
\* setrlimit raises when the hard limit may not be raised, and start() when
\* the interpreter of the spawned process cannot be started
LocalSetup ==
    /\ pc = "start"
    /\ mode = "local"
    /\ \/ /\ pf' = "running"
          /\ pc' = "enter"
          /\ UNCHANGED <<exc, in_block>>
       \/ /\ Propagate(Exc("ValueError", <<>>))
          /\ UNCHANGED pf
       \/ /\ Propagate(Exc("OSError", <<>>))
          /\ pf' = "failed"
    /\ UNCHANGED <<test_vars, calls, ctx_vars, res_vars, time_vars, child,
                   result, k8s_vars,
                   sys_procs, killed, pf_terminated, pf_joined>>

\* the port-forward child ends by itself (kubectl missing, no cluster)
PortForwardExits ==
    /\ pf = "running"
    /\ pc \in {"enter", "l_body", "exit", "l_cleanup"}
    /\ pf' = "exited"
    /\ UNCHANGED <<test_vars, calls, ctx_vars, pc, res_vars, time_vars, exc,
                   in_block, child,
                   result, k8s_vars, sys_procs, killed, pf_terminated,
                   pf_joined>>

\* the try/except with an except branch that drops the message
LocalOutcome_DropsMessage(r) ==
    LET u == unwrap(r)
    IN  IF u.raised THEN [state |-> "FAIL", output |-> <<>>]
        ELSE IF Utf8Decode(u.value) = DecodeFail
        THEN [state |-> "FAIL", output |-> <<>>]
        ELSE [state |-> "PASS", output |-> Utf8Decode(u.value)]

\* the try/except with an except branch that sets no terminal state
LocalOutcome_FailIsEmpty(r) ==
    LET u == unwrap(r)
    IN  IF u.raised THEN [state |-> "EMPTY", output |-> Str(u.exc)]
        ELSE IF Utf8Decode(u.value) = DecodeFail
        THEN [state |-> "EMPTY", output |-> Str(DecodeError)]
        ELSE [state |-> "PASS", output |-> Utf8Decode(u.value)]

\* the try/except around unwrap: the state and output the result gets
LocalOutcome(r) ==
    LET u == unwrap(r)
    IN  IF u.raised THEN [state |-> "FAIL", output |-> Str(u.exc)]
        ELSE IF Utf8Decode(u.value) = DecodeFail
        THEN [state |-> "FAIL", output |-> Str(DecodeError)]
        ELSE [state |-> "PASS", output |-> Utf8Decode(u.value)]

\* the body of the with-block: run the test binary and record its outcome
LocalBody ==
    /\ pc = "l_body"
    /\ \E c \in RunnerChildren.local : \E o \in ShellRun(c, TRUE) :
          /\ child' = c
          /\ IF o.raised
             THEN /\ BlockRaise(o.exc)
                  /\ UNCHANGED <<result, output>>
             ELSE /\ result' = o.value
                  /\ state' = LocalOutcome(o.value).state
                  /\ output' = LocalOutcome(o.value).output
                  /\ pc' = "exit"
                  /\ UNCHANGED <<start_time, end_time, time_vars, exc,
                                 in_block>>
    /\ Issue("cargo")
    /\ UNCHANGED <<test_vars, ctx_vars, k8s_vars, proc_vars>>

\* the processes the cleanup kills among those psutil yields
KillSet(procs) ==
    { <<"psutil", i>> : i \in { j \in 1..Len(procs) :
                                  Contains(ProcName.kubectl_word, procs[j]) } }

\* context.processes.processes(): SystemProcesses wraps what psutil yields,
\* a fake yields its own processes
CtxProcesses ==
    IF ctx_procs.kind = "system"
    THEN { [id |-> <<"psutil", i>>, name |-> sys_procs[i]] :
             i \in 1..Len(sys_procs) }
    ELSE { [id |-> <<"fake", i>>, name |-> ctx_procs.names[i]] :
             i \in 1..Len(ctx_procs.names) }

\* the code after the with-block, and the return; name() and kill() of a
\* psutil process are taken to succeed
LocalCleanup ==
    /\ pc = "l_cleanup"
    /\ IF keep_args
       THEN UNCHANGED proc_vars
       ELSE /\ \E procs \in SysProcOptions :
                  /\ sys_procs' = procs
                  /\ killed' = KillSet(procs)
            /\ pf' = "exited"
            /\ pf_terminated' = TRUE
            /\ pf_joined' = TRUE
    /\ pc' = "returned"
    /\ UNCHANGED <<test_vars, calls, ctx_vars, res_vars, time_vars, exc,
                   in_block, child, result,
                   k8s_vars>>

----------------------------------------------------------------------------
(* K8sForgeRunner.run                                                      *)

\* a shell.run whose RunResult is dropped, outside the with-block
DroppedCall(from, to) ==
    /\ pc = from
    /\ mode = "k8s"
    /\ \E c \in RunnerChildren.ignored : \E o \in ShellRun(c, FALSE) :
          /\ child' = c
          /\ IF o.raised
             THEN Propagate(o.exc) /\ UNCHANGED result
             ELSE /\ result' = o.value
                  /\ pc' = to
                  /\ UNCHANGED <<exc, in_block>>

\* a shell.run whose RunResult is dropped, inside the with-block
DroppedCallInBlock(from, to) ==
    /\ pc = from
    /\ \E c \in RunnerChildren.ignored : \E o \in ShellRun(c, FALSE) :
          /\ child' = c
          /\ IF o.raised
             THEN BlockRaise(o.exc) /\ UNCHANGED result
             ELSE /\ result' = o.value
                  /\ pc' = to
                  /\ UNCHANGED <<state, start_time, end_time, time_vars, exc,
                                 in_block>>
    /\ UNCHANGED <<test_vars, ctx_vars, output, k8s_vars, proc_vars>>

\* the pod name (time.epoch()) and kubectl delete pod --force
K8sDeletePods ==
    /\ DroppedCall("start", "k_wait_delete")
    /\ clock' \in Now(clock)
    /\ now_calls' = Append(now_calls, "epoch")
    /\ Issue("delete")
    /\ UNCHANGED <<test_vars, ctx_vars, res_vars, k8s_vars, proc_vars>>

\* kubectl wait --for=delete
K8sWaitDelete ==
    /\ DroppedCall("k_wait_delete", "k_render")
    /\ Issue("wait_delete")
    /\ UNCHANGED <<test_vars, ctx_vars, res_vars, time_vars, k8s_vars,
                   proc_vars>>

\* read the template and render it; the read or the format may raise
K8sRender ==
    /\ pc = "k_render"
    /\ \/ pc' = "enter" /\ UNCHANGED <<exc, in_block>>
       \/ Propagate(Exc("OSError", <<>>))
    /\ UNCHANGED <<test_vars, calls, ctx_vars, res_vars, time_vars, child,
                   result, k8s_vars,
                   proc_vars>>

\* mkstemp and write of the rendered template; either may raise
K8sWriteSpec ==
    /\ pc = "k_write"
    /\ \/ /\ pc' = "k_apply"
          /\ Issue("write")
          /\ UNCHANGED <<state, start_time, end_time, time_vars, exc,
                         in_block>>
       \/ BlockRaise(Exc("OSError", <<>>)) /\ Issue("write")
       \/ BlockRaise(Exc("OSError", <<>>)) /\ UNCHANGED calls
    /\ UNCHANGED <<test_vars, ctx_vars, output, child, result, k8s_vars,
                   proc_vars>>

\* kubectl apply followed at once by kubectl logs
K8sApply_NoWaitReady ==
    DroppedCallInBlock("k_apply", "k_logs") /\ Issue("apply")

\* kubectl apply; its RunResult is dropped
K8sApply ==
    DroppedCallInBlock("k_apply", "k_wait_ready") /\ Issue("apply")

\* kubectl wait --for=condition=Ready
K8sWaitReady ==
    DroppedCallInBlock("k_wait_ready", "k_logs") /\ Issue("wait_ready")

\* kubectl logs -f, unwrapped; then state = None and attempts = 100
K8sLogs ==
    /\ pc = "k_logs"
    /\ \E c \in RunnerChildren.logs : \E o \in ShellRun(c, TRUE) :
          /\ child' = c
          /\ IF o.raised
             THEN /\ BlockRaise(o.exc)
                  /\ UNCHANGED <<result, forge_logs, kstate, attempts>>
             ELSE /\ result' = o.value
                  /\ IF unwrap(o.value).raised
                     THEN /\ BlockRaise(unwrap(o.value).exc)
                          /\ UNCHANGED <<forge_logs, kstate, attempts>>
                     ELSE /\ forge_logs' = unwrap(o.value).value
                          /\ kstate' = "None"
                          /\ attempts' = attempts_init
                          /\ pc' = "k_poll"
                          /\ UNCHANGED <<state, start_time, end_time, time_vars,
                                         exc, in_block>>
    /\ Issue("logs")
    /\ UNCHANGED <<test_vars, ctx_vars, output, forge_status, polls,
                   prefix_running, proc_vars>>

\* the if/elif chain with `"not found" in forge_status` for the regular
\* expression
PhaseState_PlainNotFound(status) ==
    IF Contains(PhaseWord.running, status) THEN "None"
    ELSE IF Contains(PhaseWord.succeeded, status) THEN "PASS"
    ELSE IF Contains(PhaseWord.not \o <<32>> \o PhaseWord.found, status) THEN "SKIP"
    ELSE "FAIL"

\* the if/elif chain with the test for "succeeded" moved to the front
PhaseState_SucceededFirst(status) ==
    IF Contains(PhaseWord.succeeded, status) THEN "PASS"
    ELSE IF Contains(PhaseWord.running, status) THEN "None"
    ELSE IF ReNotFound(status) THEN "SKIP"
    ELSE "FAIL"

\* the if/elif chain of the polling loop: the state a phase string gives,
\* "None" when the loop continues
PhaseState(status) ==
    IF Contains(PhaseWord.running, status) THEN "None"
    ELSE IF Contains(PhaseWord.succeeded, status) THEN "PASS"
    ELSE IF ReNotFound(status) THEN "SKIP"
    ELSE "FAIL"

\* one pass of a loop body whose else branch retries instead of failing
PollPass_RetryUnknown(status, att) ==
    IF PhaseState(status) \in {"None", "FAIL"}
    THEN [state |-> "None", attempts |-> att - 1, exhausted |-> att - 1 <= 0]
    ELSE [state |-> PhaseState(status), attempts |-> att - 1,
          exhausted |-> att - 1 <= 0]

\* one pass of the loop body after forge_status is known: `continue` skips
\* the decrement of attempts and the check of the budget
PollPass(status, att) ==
    IF PhaseState(status) = "None"
    THEN [state |-> "None", attempts |-> att, exhausted |-> FALSE]
    ELSE [state |-> PhaseState(status), attempts |-> att - 1,
          exhausted |-> att - 1 <= 0]

\* one iteration of `while state is None`, followed for at most `bound` polls
K8sPollUpTo(bound) ==
    /\ pc = "k_poll"
    /\ kstate = "None"
    /\ polls < bound
    /\ polls' = polls + 1
    /\ prefix_running' =
          (polls = 0 \/ (prefix_running /\ child = Child(TRUE, 0, PhaseAnswer.running)))
    /\ \E c \in RunnerChildren.phase : \E o \in ShellRun(c, FALSE) :
          /\ child' = c
          /\ IF o.raised
             THEN /\ BlockRaise(o.exc)
                  /\ UNCHANGED <<result, forge_status, kstate, attempts>>
             ELSE /\ result' = o.value
                  /\ IF unwrap(o.value).raised
                     THEN /\ BlockRaise(unwrap(o.value).exc)
                          /\ UNCHANGED <<forge_status, kstate, attempts>>
                     ELSE IF Utf8Decode(o.value.output) = DecodeFail
                     THEN /\ BlockRaise(DecodeError)
                          /\ UNCHANGED <<forge_status, kstate, attempts>>
                     ELSE LET status == StrLower(Utf8Decode(o.value.output))
                              p == PollPass(status, attempts)
                          IN  /\ forge_status' = status
                              /\ kstate' = p.state
                              /\ attempts' = p.attempts
                              /\ IF p.exhausted
                                 THEN BlockRaise(Exc("Exception", M_exhausted))
                                 ELSE /\ pc' = IF p.state = "None"
                                               THEN "k_poll" ELSE "k_set"
                                      /\ UNCHANGED <<state, start_time,
                                                     end_time, time_vars, exc,
                                                     in_block>>
    /\ Issue("get")
    /\ UNCHANGED <<test_vars, ctx_vars, output, forge_logs, proc_vars>>

K8sPoll == K8sPollUpTo(MaxPolls)

K8sLongPoll == K8sPollUpTo(LongPolls)

\* set_output(forge_logs.decode()) and set_state(state)
K8sSetResult ==
    /\ pc = "k_set"
    /\ IF Utf8Decode(forge_logs) = DecodeFail
       THEN BlockRaise(DecodeError) /\ UNCHANGED output
       ELSE /\ output' = Utf8Decode(forge_logs)
            /\ state' = kstate
            /\ pc' = "exit"
            /\ UNCHANGED <<start_time, end_time, time_vars, exc, in_block>>
    /\ UNCHANGED <<test_vars, calls, ctx_vars, child, result, k8s_vars,
                   proc_vars>>

----------------------------------------------------------------------------

Next ==
    \/ LocalSetup
    \/ PortForwardExits
    \/ WithContextEnter
    \/ LocalBody
    \/ WithContextExit
    \/ LocalCleanup
    \/ K8sDeletePods
    \/ K8sWaitDelete
    \/ K8sRender
    \/ K8sWriteSpec
    \/ K8sApply
    \/ K8sWaitReady
    \/ K8sLogs
    \/ K8sPoll
    \/ K8sSetResult

Spec == Init /\ [][Next]_vars

\* One cluster run followed through the whole attempt budget of its polling
\* loop, for one context (the cluster runner reads neither keep_args as a
\* flag nor the processes).
InitPoll ==
    /\ Init
    /\ mode = "k8s"
    /\ ~keep_args
    /\ ctx_procs.kind = "system"

NextPoll ==
    \/ K8sDeletePods
    \/ K8sWaitDelete
    \/ K8sRender
    \/ WithContextEnter
    \/ K8sWriteSpec
    \/ K8sApply
    \/ K8sWaitReady
    \/ K8sLogs
    \/ K8sLongPoll
    \/ K8sSetResult
    \/ WithContextExit

SpecPoll == InitPoll /\ [][NextPoll]_vars

----------------------------------------------------------------------------
(* Properties of the runners.                                              *)

LocalDone == mode = "local" /\ result # NoResult
Decodable(b) == Utf8Decode(b) # DecodeFail
Exhausted == Exc("Exception", M_exhausted)
NeverTerminal == Exc("Exception", ResultMsg.never_terminal)

\* C1: every ForgeResult a runner returns to its caller has a state in
\* {PASS, FAIL, SKIP}, an output that is set and not None, and both
\* start_time and end_time stamped, whatever the shell answered.
C1_ReturnedResultComplete ==
    pc = "returned" =>
        /\ state \in TerminalStates
        /\ output \notin {Unset, None}
        /\ start_time # NoTime
        /\ end_time # NoTime

\* a cluster run that polled more than once and returned SKIP
C1_Witness ==
    pc = "returned" /\ mode = "k8s" /\ polls >= 2 /\ state = "SKIP"

\* C2: when the body of the with-block raises while the result is still
\* RUNNING, the scope exit has stamped end_time and what propagates is the
\* structural error "Forge result never entered terminal state".
C2_RaisingExitStillChecked ==
    (pc = "raised" /\ in_block /\ state = "RUNNING") =>
        /\ end_time # NoTime
        /\ exc = NeverTerminal

\* the answers so far are k times b"running" and then b"succeeded", all exit 0
ScriptRunningThenSucceeded ==
    polls >= 1 /\ prefix_running /\ child = Child(TRUE, 0, PhaseAnswer.succeeded)

\* the answers so far are the single answer b"notfound", exit 0
ScriptNotFound ==
    polls = 1 /\ child = Child(TRUE, 0, PhaseAnswer.notfound)

\* C3: after k answers "running" and then "succeeded" the polling loop has
\* ended with PASS at poll k+1 (it polls no further), and after the single
\* answer "notfound" it has ended with SKIP at poll 1; a result that is then
\* returned carries that state.
C3_ScriptedPolls ==
    /\ ScriptRunningThenSucceeded =>
          /\ pc # "k_poll"
          /\ kstate = "PASS"
          /\ pc \in {"exit", "returned"} => state = "PASS"
    /\ ScriptNotFound =>
          /\ pc # "k_poll"
          /\ kstate = "SKIP"
          /\ pc \in {"exit", "returned"} => state = "SKIP"

\* [running, running, succeeded]: PASS returned after exactly 3 polls
C3_Witness ==
    /\ ScriptRunningThenSucceeded
    /\ polls = 3
    /\ pc = "returned"
    /\ state = "PASS"

\* C4: the polling loop issues at most 100 phase polls, whatever the
\* scheduler answers.
C4_PollsBounded == polls <= attempts_init

\* the last answer is the phase 'Failed' with exit 0: it matches none of
\* running, succeeded, not found
LastAnswerUnmatched ==
    polls >= 1 /\ child = Child(TRUE, 0, PhaseAnswer.q_Failed)

\* C5 as stated: polls that return a phase matching none of success,
\* not found, running never resolve a state; the loop goes on until the
\* budget is exhausted and raises.
C5_UnmatchedExhausts ==
    LastAnswerUnmatched => (kstate = "None" \/ exc = Exhausted)

\* C5 amended: a poll that returns a phase matching none of success,
\* not found, running ends the loop at that poll with FAIL; the budget is
\* decremented once and the exhaustion error is not raised.
C5_UnmatchedFails ==
    LastAnswerUnmatched =>
        /\ pc # "k_poll"
        /\ kstate = "FAIL"
        /\ attempts = attempts_init - 1
        /\ exc # Exhausted
        /\ pc \in {"exit", "returned"} => state = "FAIL"

\* 'Failed' at the second poll, FAIL returned
C5_Witness ==
    LastAnswerUnmatched /\ polls = 2 /\ pc = "returned" /\ state = "FAIL"

\* C6: the state the loop holds follows from the last phase polled with the
\* priority running > succeeded > not found > anything else; the loop polls
\* again only after a phase containing "running", so the first phase without
\* it decides, and the result carries that state.
C6_PhasePriority ==
    /\ forge_status # Unset =>
          /\ Contains(PhaseWord.running, forge_status) => kstate = "None"
          /\ (/\ ~Contains(PhaseWord.running, forge_status)
              /\ Contains(PhaseWord.succeeded, forge_status)) => kstate = "PASS"
          /\ (/\ ~Contains(PhaseWord.running, forge_status)
              /\ ~Contains(PhaseWord.succeeded, forge_status)
              /\ ReNotFound(forge_status)) => kstate = "SKIP"
          /\ (/\ ~Contains(PhaseWord.running, forge_status)
              /\ ~Contains(PhaseWord.succeeded, forge_status)
              /\ ~ReNotFound(forge_status)) => kstate = "FAIL"
    /\ (pc = "k_poll" /\ polls >= 1) => Contains(PhaseWord.running, forge_status)
    /\ (mode = "k8s" /\ pc \in {"exit", "returned"}) => state = kstate

\* a phase holding both "running" and "succeeded" left the loop polling
C6_Witness ==
    /\ pc = "k_poll"
    /\ polls >= 1
    /\ child = Child(TRUE, 0, PhaseAnswer.running_succeeded)
    /\ kstate = "None"

\* Shell.run returns the child's return code and output in a RunResult
\* whatever the return code; it raises only when the child cannot be started
\* or a streamed chunk does not decode
ShellCarriesExit(c) ==
    c.spawned =>
        \A s \in BOOLEAN :
            /\ Returned(RunResult(c.returncode, c.out)) \in ShellRun(c, s)
            /\ \A o \in ShellRun(c, s) :
                   o.raised =>
                       /\ o.exc = DecodeError
                       /\ s
                       /\ SomeChunkUndecodable(c.out)

C9_CleanupKillsContextProcesses ==
    (mode = "local" /\ pc = "returned") =>
        IF keep_args
        THEN killed = {} /\ ~pf_terminated
        ELSE /\ \A p \in CtxProcesses :
                    Contains(ProcName.kubectl_word, p.name) => p.id \in killed
             /\ pf_terminated
             /\ pf_joined

\* C10: once the with-block of a local run without the keep flag was
\* entered, run is left, by return or by raise, only with the port-forward
\* terminated and joined.
C10_CleanupOnEveryExit ==
    (/\ mode = "local"
     /\ ~keep_args
     /\ start_time # NoTime
     /\ pc \in {"returned", "raised"}) =>
        pf_terminated /\ pf_joined

----------------------------------------------------------------------------
(* Properties of the cluster run's commands.                               *)

\* the commands of a cluster run, in the order of the source
K8sOrder ==
    <<"delete", "wait_delete", "write", "apply", "wait_ready", "logs",
      "get">>

\* C11: at every point of a cluster run the commands issued so far are the
\* first commands of the one fixed order delete, wait for deletion, write,
\* apply, wait for Ready, logs, get phase: none is skipped or out of place.
C11_FixedOrder ==
    mode = "k8s" =>
        /\ Len(calls) <= Len(K8sOrder)
        /\ calls = SubSeq(K8sOrder, 1, Len(calls))

\* a cluster run returned after all seven commands, the poll among them
C11_Witness ==
    /\ mode = "k8s"
    /\ pc = "returned"
    /\ polls > 1
    /\ calls = K8sOrder

\* C12: the run waits for the pod only after an apply that exited with 0:
\* an apply with another exit code ends the run with an error.
C12_FailedApplyStops ==
    (mode = "k8s" /\ pc = "k_wait_ready") => result.exit_code = 0

\* C13: a phase poll that exits with a code other than 0 does not raise:
\* its output is classified by the if/elif chain of the loop.
C13_FailedPollClassified ==
    (/\ mode = "k8s"
     /\ calls # <<>>
     /\ calls[Len(calls)] = "get"
     /\ result # NoResult
     /\ result.exit_code # 0
     /\ Decodable(result.output)) =>
        /\ pc # "raised"
        /\ kstate = PhaseState(StrLower(Utf8Decode(result.output)))

----------------------------------------------------------------------------
(* The formatters: ForgeResult.format, format_report, format_comment.      *)

\* lines of an output that the report formatter is applied to
MaxLines == 3

\* the lines that switch the recording of format_report
Sentinel ==
      \* "====json-report-begin==="
    [ begin |->
        <<61, 61, 61, 61, 106, 115, 111, 110, 45, 114, 101, 112, 111, 114,
          116, 45, 98, 101, 103, 105, 110, 61, 61, 61>>,
      \* "====json-report-end==="
      end |->
        <<61, 61, 61, 61, 106, 115, 111, 110, 45, 114, 101, 112, 111, 114,
          116, 45, 101, 110, 100, 61, 61, 61>> ]

\* lines of an output, the document two of them join to, and its text
ReportLine ==
      \* "{"text":"
    [ open |->
        <<123, 34, 116, 101, 120, 116, 34, 58>>,
      \* ""ok"}"
      close |->
        <<34, 111, 107, 34, 125>>,
      \* "{"text":""}"
      empty |->
        <<123, 34, 116, 101, 120, 116, 34, 58, 34, 34, 125>>,
      \* "{}"
      none |->
        <<123, 125>>,
      \* "oops"
      bad |->
        <<111, 111, 112, 115>>,
      \* "[]"
      list |->
        <<91, 93>>,
      \* "{"text":"ok"}"
      ok |->
        <<123, 34, 116, 101, 120, 116, 34, 58, 34, 111, 107, 34, 125>>,
      \* "ok"
      text |->
        <<111, 107>> ]

\* the texts format_report returns, and the messages of the errors it meets
ReportMsg ==
      \* "Forge test runner terminated"
    [ terminated |->
        <<70, 111, 114, 103, 101, 32, 116, 101, 115, 116, 32, 114, 117, 110,
          110, 101, 114, 32, 116, 101, 114, 109, 105, 110, 97, 116, 101,
          100>>,
      \* "Forge report malformed: "
      malformed |->
        <<70, 111, 114, 103, 101, 32, 114, 101, 112, 111, 114, 116, 32, 109,
          97, 108, 102, 111, 114, 109, 101, 100, 58, 32>>,
      \* "Forge report text empty. See test runner output."
      text_empty |->
        <<70, 111, 114, 103, 101, 32, 114, 101, 112, 111, 114, 116, 32, 116,
          101, 120, 116, 32, 101, 109, 112, 116, 121, 46, 32, 83, 101, 101,
          32, 116, 101, 115, 116, 32, 114, 117, 110, 110, 101, 114, 32, 111,
          117, 116, 112, 117, 116, 46>>,
      \* "Expecting value: line 1 column 1 (char 0)"
      json_error |->
        <<69, 120, 112, 101, 99, 116, 105, 110, 103, 32, 118, 97, 108, 117,
          101, 58, 32, 108, 105, 110, 101, 32, 49, 32, 99, 111, 108, 117,
          109, 110, 32, 49, 32, 40, 99, 104, 97, 114, 32, 48, 41>>,
      \* "'list' object has no attribute 'get'"
      no_get |->
        <<39, 108, 105, 115, 116, 39, 32, 111, 98, 106, 101, 99, 116, 32,
          104, 97, 115, 32, 110, 111, 32, 97, 116, 116, 114, 105, 98, 117,
          116, 101, 32, 39, 103, 101, 116, 39>>,
      \* "'NoneType' object has no attribute 'splitlines'"
      no_splitlines |->
        <<39, 78, 111, 110, 101, 84, 121, 112, 101, 39, 32, 111, 98, 106,
          101, 99, 116, 32, 104, 97, 115, 32, 110, 111, 32, 97, 116, 116,
          114, 105, 98, 117, 116, 101, 32, 39, 115, 112, 108, 105, 116, 108,
          105, 110, 101, 115, 39>> ]

\* the parts of ForgeResult.format
FormatText ==
      \* "Forge "
    [ forge |->
        <<70, 111, 114, 103, 101, 32>>,
      \* "ed"
      ed |->
        <<101, 100>> ]

\* the comment templates after textwrap.dedent, and the dashboard link of the
\* pre-run comment
CommentText ==
      \* "\n=====START FORGE COMMENT=====\n```\n```\n### Forge is running with
      \*    `"
    [ start |->
        <<10, 61, 61, 61, 61, 61, 83, 84, 65, 82, 84, 32, 70, 79, 82, 71, 69,
          32, 67, 79, 77, 77, 69, 78, 84, 61, 61, 61, 61, 61, 10, 96, 96, 96,
          10, 96, 96, 96, 10, 35, 35, 35, 32, 70, 111, 114, 103, 101, 32,
          105, 115, 32, 114, 117, 110, 110, 105, 110, 103, 32, 119, 105, 116,
          104, 32, 96>>,
      \* "`\n* [Grafana dashboard (auto-refresh)]("
      grafana |->
        <<96, 10, 42, 32, 91, 71, 114, 97, 102, 97, 110, 97, 32, 100, 97,
          115, 104, 98, 111, 97, 114, 100, 32, 40, 97, 117, 116, 111, 45,
          114, 101, 102, 114, 101, 115, 104, 41, 93, 40>>,
      \* ")\n* [Validator 0 logs (auto-refresh)]("
      validator |->
        <<41, 10, 42, 32, 91, 86, 97, 108, 105, 100, 97, 116, 111, 114, 32,
          48, 32, 108, 111, 103, 115, 32, 40, 97, 117, 116, 111, 45, 114,
          101, 102, 114, 101, 115, 104, 41, 93, 40>>,
      \* ")\n* [Humio Logs]("
      humio |->
        <<41, 10, 42, 32, 91, 72, 117, 109, 105, 111, 32, 76, 111, 103, 115,
          93, 40>>,
      \* ")\n"
      close |->
        <<41, 10>>,
      \* "\n=====END FORGE COMMENT=====\n"
      end |->
        <<10, 61, 61, 61, 61, 61, 69, 78, 68, 32, 70, 79, 82, 71, 69, 32, 67,
          79, 77, 77, 69, 78, 84, 61, 61, 61, 61, 61, 10>>,
      \* "\n=====START PRE_FORGE COMMENT=====\n### Forge is running with `"
      pre_start |->
        <<10, 61, 61, 61, 61, 61, 83, 84, 65, 82, 84, 32, 80, 82, 69, 95, 70,
          79, 82, 71, 69, 32, 67, 79, 77, 77, 69, 78, 84, 61, 61, 61, 61, 61,
          10, 35, 35, 35, 32, 70, 111, 114, 103, 101, 32, 105, 115, 32, 114,
          117, 110, 110, 105, 110, 103, 32, 119, 105, 116, 104, 32, 96>>,
      \* "=====END PRE_FORGE COMMENT=====\n"
      pre_end |->
        <<61, 61, 61, 61, 61, 69, 78, 68, 32, 80, 82, 69, 95, 70, 79, 82, 71,
          69, 32, 67, 79, 77, 77, 69, 78, 84, 61, 61, 61, 61, 61, 10>>,
      \* "https://banana"
      banana |->
        <<104, 116, 116, 112, 115, 58, 47, 47, 98, 97, 110, 97, 110, 97>> ]

\* values of the options of the test command
Option ==
      \* "auth.sh"
    [ script |->
        <<97, 117, 116, 104, 46, 115, 104>>,
      \* "forge-0"
      forge0 |->
        <<102, 111, 114, 103, 101, 45, 48>>,
      \* "devnet"
      devnet |->
        <<100, 101, 118, 110, 101, 116>>,
      \* "banana"
      tag |->
        <<98, 97, 110, 97, 110, 97>>,
      \* "apple"
      upgrade |->
        <<97, 112, 112, 108, 101>>,
      \* "tomorrow"
      exp_bad |->
        <<116, 111, 109, 111, 114, 114, 111, 119>>,
      \* "2020-01-01T00:00:00+0000"
      exp_past |->
        <<50, 48, 50, 48, 45, 48, 49, 45, 48, 49, 84, 48, 48, 58, 48, 48, 58,
          48, 48, 43, 48, 48, 48, 48>>,
      \* "2999-01-01T00:00:00+0000"
      exp_future |->
        <<50, 57, 57, 57, 45, 48, 49, 45, 48, 49, 84, 48, 48, 58, 48, 48, 58,
          48, 48, 43, 48, 48, 48, 48>>,
      \* "pre.md"
      pre |->
        <<112, 114, 101, 46, 109, 100>>,
      \* "out.txt"
      output |->
        <<111, 117, 116, 46, 116, 120, 116>>,
      \* "report.txt"
      report |->
        <<114, 101, 112, 111, 114, 116, 46, 116, 120, 116>>,
      \* "comment.md"
      comment |->
        <<99, 111, 109, 109, 101, 110, 116, 46, 109, 100>> ]


\* the text of the lines between the line breaks, the breaks left out
LineBreaks == {10, 11, 12, 13, 28, 29, 30, 133, 8232, 8233}

RECURSIVE SplitFrom(_, _, _)
\* str.splitlines() of s from index i on, cur the line read so far
SplitFrom(s, i, cur) ==
    IF i > Len(s) THEN (IF cur = <<>> THEN <<>> ELSE <<cur>>)
    ELSE IF s[i] \in LineBreaks
    THEN LET crlf == s[i] = 13 /\ i < Len(s) /\ s[i + 1] = 10
         IN  <<cur>> \o SplitFrom(s, IF crlf THEN i + 2 ELSE i + 1, <<>>)
    ELSE SplitFrom(s, i + 1, Append(cur, s[i]))

\* str.splitlines()
SplitLines(s) == SplitFrom(s, 1, <<>>)

RECURSIVE Join(_, _)
\* sep.join(lines)
Join(sep, lines) ==
    IF lines = <<>> THEN <<>>
    ELSE IF Len(lines) = 1 THEN lines[1]
    ELSE lines[1] \o sep \o Join(sep, Tail(lines))

\* a str is true unless it is empty, None is false
Truthy(v) == v # None /\ v # <<>>

IsSentinel(line) == line \in {Sentinel.begin, Sentinel.end}

RECURSIVE Recorded(_, _)
\* the loop of format_report over the lines: either sentinel flips
\* `recording`, a line read while recording is appended to report_lines
Recorded(lines, recording) ==
    IF lines = <<>> THEN <<>>
    ELSE IF IsSentinel(Head(lines))
    THEN Recorded(Tail(lines), ~recording)
    ELSE IF recording THEN <<Head(lines)>> \o Recorded(Tail(lines), recording)
    ELSE Recorded(Tail(lines), recording)

\* json.loads on the documents the lines of the model can form: an object
\* with or without "text", a list, or a JSONDecodeError (its message stands
\* for the position-dependent one)
JsonLoads(doc) ==
    IF doc = ReportLine.ok
    THEN [ok |-> TRUE, kind |-> "dict", text |-> ReportLine.text]
    ELSE IF doc = ReportLine.empty
    THEN [ok |-> TRUE, kind |-> "dict", text |-> <<>>]
    ELSE IF doc = ReportLine.none
    THEN [ok |-> TRUE, kind |-> "dict", text |-> None]
    ELSE IF doc = ReportLine.list
    THEN [ok |-> TRUE, kind |-> "list", text |-> None]
    ELSE [ok |-> FALSE, kind |-> "JSONDecodeError",
          text |-> ReportMsg.json_error]

\* json.loads("".join(report_lines)).get("text") under try/except Exception
ReportText(report_lines) ==
    LET v == JsonLoads(Join(<<>>, report_lines))
    IN  IF ~v.ok THEN Raised(Exc("JSONDecodeError", v.text))
        ELSE IF v.kind # "dict"
        THEN Raised(Exc("AttributeError", ReportMsg.no_get))
        ELSE Returned(v.text)

\* the part of format_report after the loop, without the test of the text
FromReportLines_NoTextTest(report_lines) ==
    IF report_lines = <<>> THEN ReportMsg.terminated
    ELSE LET t == ReportText(report_lines)
         IN  IF t.raised
             THEN ReportMsg.malformed \o Str(t.exc) \o <<10>>
                  \o Join(<<10>>, report_lines)
             ELSE t.value

\* the part of format_report after the loop
FromReportLines(report_lines) ==
    IF report_lines = <<>> THEN ReportMsg.terminated
    ELSE LET t == ReportText(report_lines)
         IN  IF t.raised
             THEN ReportMsg.malformed \o Str(t.exc) \o <<10>>
                  \o Join(<<10>>, report_lines)
             ELSE IF ~Truthy(t.value) THEN ReportMsg.text_empty
             ELSE t.value

\* format_report(context, result) for result.output = out
format_report(out) ==
    IF out \in {None, Unset}
    THEN Raised(Exc("AttributeError", ReportMsg.no_splitlines))
    ELSE Returned(FromReportLines(Recorded(SplitLines(out), FALSE)))

\* ForgeState.value
StateValue(st) ==
    CASE st = "RUNNING" -> <<82, 85, 78, 78, 73, 78, 71>>
      [] st = "PASS" -> <<80, 65, 83, 83>>
      [] st = "FAIL" -> <<70, 65, 73, 76>>
      [] st = "SKIP" -> <<83, 75, 73, 80>>
      [] st = "EMPTY" -> <<69, 77, 80, 84, 89>>

\* ForgeResult.format
format(st) == FormatText.forge \o StrLower(StateValue(st)) \o FormatText.ed

\* format_comment, the links and the image tag given; textwrap.dedent has
\* taken the indentation of the literal away
format_comment(tag, dashboard_link, validator_logs_link, humio_link, st) ==
    CommentText.start \o tag
    \o CommentText.grafana \o dashboard_link
    \o CommentText.validator \o validator_logs_link
    \o CommentText.humio \o humio_link \o CommentText.close
    \o format(st) \o CommentText.end

\* the lines an output is made of
ReportAlphabet ==
    { Sentinel.begin, Sentinel.end, ReportLine.open, ReportLine.close,
      ReportLine.empty, ReportLine.none, ReportLine.bad, ReportLine.list }

\* the captured outputs: up to MaxLines lines, each ended by "\n" or the
\* last one not, and no output at all
ReportOutputs ==
    LET seqs == UNION {[1..n -> ReportAlphabet] : n \in 0..MaxLines}
    IN  {Join(<<10>>, ls) : ls \in seqs} \cup {None}

InitFormat ==
    /\ mode = "local"
    /\ keep_args = FALSE
    /\ ctx_procs = [kind |-> "system", names |-> <<>>]
    /\ pc = "f_start"
    /\ state \in TerminalStates
    /\ output \in ReportOutputs
    /\ start_time = 0
    /\ end_time = 0
    /\ clock = 0
    /\ now_calls = <<>>
    /\ exc = NoExc
    /\ in_block = FALSE
    /\ child = NoChild
    /\ result = NoResult
    /\ forge_logs = Unset
    /\ kstate = "None"
    /\ attempts = 0
    /\ forge_status = Unset
    /\ polls = 0
    /\ prefix_running = TRUE
    /\ sys_procs = <<>>
    /\ killed = {}
    /\ pf = "unstarted"
    /\ pf_terminated = FALSE
    /\ pf_joined = FALSE
    /\ calls = <<>>
    /\ opt = NoOpt
    /\ written = <<>>
    /\ rendered = Unset

run_vars ==
    <<keep_args, ctx_procs, in_block, child, result, k8s_vars, proc_vars>>

\* a formatter is applied to the result: its value is kept, or it raises
Apply(r, to) ==
    /\ pc = "f_start"
    /\ IF r.raised
       THEN exc' = r.exc /\ pc' = "raised" /\ UNCHANGED rendered
       ELSE rendered' = r.value /\ pc' = to /\ UNCHANGED exc
    /\ UNCHANGED <<mode, res_vars, time_vars, run_vars, calls, opt, written>>

FormatReport == Apply(format_report(output), "f_report")

FormatResult == Apply(Returned(format(state)), "f_format")

FormatComment ==
    Apply(Returned(format_comment(Option.tag, CommentText.banana,
                                  CommentText.banana, CommentText.banana,
                                  state)),
          "f_comment")

NextFormat ==
    \/ FormatReport
    \/ FormatResult
    \/ FormatComment

SpecFormat == InitFormat /\ [][NextFormat]_vars

----------------------------------------------------------------------------
(* The test command.                                                       *)

\* what the commands of the preflight, git and the test binary print
Answer ==
      \* b"{"Account":"1234"}"
    [ identity |->
        <<123, 34, 65, 99, 99, 111, 117, 110, 116, 34, 58, 34, 49, 50, 51,
          52, 34, 125>>,
      \* b"{}"
      no_account |->
        <<123, 125>>,
      \* b"AWS_SESSION=1\n"
      env |->
        <<65, 87, 83, 95, 83, 69, 83, 83, 73, 79, 78, 61, 49, 10>>,
      \* b"eks/aptos-forge-0\n"
      ctx_forge |->
        <<101, 107, 115, 47, 97, 112, 116, 111, 115, 45, 102, 111, 114, 103,
          101, 45, 48, 10>>,
      \* b"eks/aptos-devnet\n"
      ctx_devnet |->
        <<101, 107, 115, 47, 97, 112, 116, 111, 115, 45, 100, 101, 118, 110,
          101, 116, 10>>,
      \* b"kind-kind\n"
      ctx_kind |->
        <<107, 105, 110, 100, 45, 107, 105, 110, 100, 10>>,
      \* b"aptos-a\naptos-b\n"
      ctx_two |->
        <<97, 112, 116, 111, 115, 45, 97, 10, 97, 112, 116, 111, 115, 45, 98,
          10>>,
      \* b"====json-report-begin===\n{"text":"ok"}\n====json-report-end===\n"
      report |->
        <<61, 61, 61, 61, 106, 115, 111, 110, 45, 114, 101, 112, 111, 114,
          116, 45, 98, 101, 103, 105, 110, 61, 61, 61, 10, 123, 34, 116, 101,
          120, 116, 34, 58, 34, 111, 107, 34, 125, 10, 61, 61, 61, 61, 106,
          115, 111, 110, 45, 114, 101, 112, 111, 114, 116, 45, 101, 110, 100,
          61, 61, 61, 10>>,
      \* "f00d"
      rev |->
        <<102, 48, 48, 100>> ]

\* the literals of the preflight
PreflightText ==
      \* "1234"
    [ account |->
        <<49, 50, 51, 52>>,
      \* "forge"
      forge |->
        <<102, 111, 114, 103, 101>>,
      \* "aptos"
      aptos |->
        <<97, 112, 116, 111, 115>>,
      \* "Please authenticate with AWS and rerun"
      authenticate |->
        <<80, 108, 101, 97, 115, 101, 32, 97, 117, 116, 104, 101, 110, 116,
          105, 99, 97, 116, 101, 32, 119, 105, 116, 104, 32, 65, 87, 83, 32,
          97, 110, 100, 32, 114, 101, 114, 117, 110>>,
      \* "AWS token is required"
      token_required |->
        <<65, 87, 83, 32, 116, 111, 107, 101, 110, 32, 105, 115, 32, 114,
          101, 113, 117, 105, 114, 101, 100>>,
      \* "Invalid date format: "
      invalid_date |->
        <<73, 110, 118, 97, 108, 105, 100, 32, 100, 97, 116, 101, 32, 102,
          111, 114, 109, 97, 116, 58, 32>>,
      \* "AWS token has expired"
      token_expired |->
        <<65, 87, 83, 32, 116, 111, 107, 101, 110, 32, 104, 97, 115, 32, 101,
          120, 112, 105, 114, 101, 100>>,
      \* "Could not determine current cluster name: {current_context}"
      cluster_name |->
        <<67, 111, 117, 108, 100, 32, 110, 111, 116, 32, 100, 101, 116, 101,
          114, 109, 105, 110, 101, 32, 99, 117, 114, 114, 101, 110, 116, 32,
          99, 108, 117, 115, 116, 101, 114, 32, 110, 97, 109, 101, 58, 32,
          123, 99, 117, 114, 114, 101, 110, 116, 95, 99, 111, 110, 116, 101,
          120, 116, 125>>,
      \* "AWS account number is required"
      account_required |->
        <<65, 87, 83, 32, 97, 99, 99, 111, 117, 110, 116, 32, 110, 117, 109,
          98, 101, 114, 32, 105, 115, 32, 114, 101, 113, 117, 105, 114, 101,
          100>>,
      \* "Image "
      image |->
        <<73, 109, 97, 103, 101, 32>>,
      \* "Upgrade image "
      upgrade_image |->
        <<85, 112, 103, 114, 97, 100, 101, 32, 105, 109, 97, 103, 101, 32>>,
      \* " does not exist"
      does_not_exist |->
        <<32, 100, 111, 101, 115, 32, 110, 111, 116, 32, 101, 120, 105, 115,
          116>>,
      \* "Couldnt find a recent built image"
      no_recent |->
        <<67, 111, 117, 108, 100, 110, 116, 32, 102, 105, 110, 100, 32, 97,
          32, 114, 101, 99, 101, 110, 116, 32, 98, 117, 105, 108, 116, 32,
          105, 109, 97, 103, 101>> ]

\* the bytes of one code point in UTF-8
Utf8Bytes(c) ==
    IF c < 128 THEN <<c>>
    ELSE IF c < 2048 THEN <<192 + (c \div 64), 128 + (c % 64)>>
    ELSE IF c < 65536
    THEN <<224 + (c \div 4096), 128 + ((c \div 64) % 64), 128 + (c % 64)>>
    ELSE <<240 + (c \div 262144), 128 + ((c \div 4096) % 64),
           128 + ((c \div 64) % 64), 128 + (c % 64)>>

RECURSIVE Flatten(_)
\* the concatenation of the sequences of ss
Flatten(ss) ==
    IF ss = <<>> THEN <<>>
    ELSE IF Len(ss) = 1 THEN ss[1]
    ELSE LET h == Len(ss) \div 2
         IN  Flatten(SubSeq(ss, 1, h)) \o Flatten(SubSeq(ss, h + 1, Len(ss)))

\* str.encode()
Utf8Encode(s) == Flatten([i \in DOMAIN s |-> Utf8Bytes(s[i])])

\* FakeShell.run answers every command with RunResult(0, b'output'), as a
\* child that prints "output" and exits with 0; LocalShell.run runs one of
\* the children
TestShell(dry_run, children) ==
    IF dry_run THEN {Child(TRUE, 0, ChildOutput.output)} ELSE children

\* the children LocalShell.run may run for the commands of the test command
CommandChildren ==
      \* aws sts get-caller-identity
    [ sts |->
        { Child(TRUE, 0, Answer.identity), Child(TRUE, 0, Answer.no_account),
          Child(TRUE, 255, ChildOutput.error) },
      \* bash -c "source <script> && env | grep AWS_"
      script |->
        { Child(TRUE, 0, Answer.env), Child(TRUE, 1, ChildOutput.error) },
      \* kubectl config current-context
      context |->
        { Child(TRUE, 0, Answer.ctx_forge), Child(TRUE, 0, Answer.ctx_devnet),
          Child(TRUE, 0, Answer.ctx_kind), Child(TRUE, 0, Answer.ctx_two),
          Child(TRUE, 1, ChildOutput.error) },
      \* the test binary of a run the command starts
      test_binary |->
        { Child(TRUE, 0, Answer.report), Child(TRUE, 1, ChildOutput.error),
          NoChild } ]

\* json.loads(...).get("Account") on the answers of the model
JsonAccount(b) ==
    IF b = Answer.identity THEN Returned(PreflightText.account)
    ELSE IF b = Answer.no_account THEN Returned(None)
    ELSE Raised(Exc("JSONDecodeError", ReportMsg.json_error))

\* get_aws_account_num for the outcome o of its shell.run
get_aws_account_num(o) ==
    IF o.raised THEN o
    ELSE IF unwrap(o.value).raised THEN unwrap(o.value)
    ELSE JsonAccount(unwrap(o.value).value)

\* update_aws_auth for the outcome o of the script and the outcome sts of
\* the second get-caller-identity
update_aws_auth(aws_auth_script, o, sts) ==
    IF aws_auth_script = None
    THEN Raised(Exc("AwsError", PreflightText.authenticate))
    ELSE IF o.raised THEN o
    ELSE IF unwrap(o.value).raised THEN unwrap(o.value)
    ELSE IF Utf8Decode(unwrap(o.value).value) = DecodeFail
    THEN Raised(DecodeError)
    ELSE get_aws_account_num(sts)

\* the year datetime.now(timezone.utc) is in
NowUtc == 2022

\* datetime.strptime(s, "%Y-%m-%dT%H:%M:%S%z") on the values of the model:
\* the year of the datetime, or -1 for ValueError
Strptime(s) ==
    IF s = Option.exp_past THEN 2020
    ELSE IF s = Option.exp_future THEN 2999
    ELSE -1

\* assert_aws_token_expiration
assert_aws_token_expiration(aws_token_expiration) ==
    IF aws_token_expiration = None
    THEN Raised(Exc("AwsError", PreflightText.token_required))
    ELSE IF Strptime(aws_token_expiration) = -1
    THEN Raised(Exc("AwsError",
                    PreflightText.invalid_date \o aws_token_expiration))
    ELSE IF NowUtc > Strptime(aws_token_expiration)
    THEN Raised(Exc("AwsError", PreflightText.token_expired))
    ELSE Returned(None)

\* the first index of s at or after i that holds a line feed, or Len(s) + 1
LineEnd(s, i) ==
    IF \E j \in i..Len(s) : s[j] = 10
    THEN CHOOSE j \in i..Len(s) : s[j] = 10 /\ \A k \in i..(j - 1) : s[k] # 10
    ELSE Len(s) + 1

RECURSIVE ReAptos(_)
\* re.findall(r"aptos.*", s): each match runs to the end of its line
ReAptos(s) ==
    IF ~Contains(PreflightText.aptos, s) THEN <<>>
    ELSE LET i == CHOOSE i \in 1..Len(s) :
                      /\ IsPrefixAt(PreflightText.aptos, s, i)
                      /\ \A k \in 1..(i - 1) :
                             ~IsPrefixAt(PreflightText.aptos, s, k)
             j == LineEnd(s, i)
         IN  <<SubSeq(s, i, j - 1)>> \o ReAptos(SubSeq(s, j, Len(s)))

\* get_current_cluster_name for the outcome o of its shell.run
get_current_cluster_name(o) ==
    IF o.raised THEN o
    ELSE IF unwrap(o.value).raised THEN unwrap(o.value)
    ELSE IF Utf8Decode(unwrap(o.value).value) = DecodeFail
    THEN Raised(DecodeError)
    ELSE LET matches == ReAptos(Utf8Decode(unwrap(o.value).value))
         IN  IF Len(matches) # 1
             THEN Raised(Exc("ValueError", PreflightText.cluster_name))
             ELSE Returned(matches[1])

\* an image_exists that finds every tag
image_exists_Always(dry_run, registry, image_tag) ==
    TRUE

\* image_exists: aws ecr describe-images exits with 0 for a tag of the
\* registry; FakeShell answers 0 for every tag
image_exists(dry_run, registry, image_tag) ==
    dry_run \/ image_tag \in registry

RECURSIVE find_recent_image(_, _, _)
\* find_recent_image over the revisions git.last yields
find_recent_image(dry_run, registry, revisions) ==
    IF revisions = <<>> THEN Raised(Exc("Exception", PreflightText.no_recent))
    ELSE IF image_exists(dry_run, registry, Head(revisions))
    THEN Returned(Head(revisions))
    ELSE find_recent_image(dry_run, registry, Tail(revisions))

\* git rev-parse HEAD~i: FakeShell answers b'output' for each
Revisions(dry_run) == IF dry_run THEN <<ChildOutput.output>> ELSE <<Answer.rev>>

\* the image tags of the options, and the choice of the image
ChooseImage(dry_run, registry, image_tag, upgrade_image_tag) ==
    IF image_tag = None
    THEN find_recent_image(dry_run, registry, Revisions(dry_run))
    ELSE IF ~image_exists(dry_run, registry, image_tag)
    THEN Raised(Exc("Exception", PreflightText.image \o image_tag
                                 \o PreflightText.does_not_exist))
    ELSE IF /\ Truthy(upgrade_image_tag)
            /\ ~image_exists(dry_run, registry, upgrade_image_tag)
    THEN Raised(Exc("Exception", PreflightText.upgrade_image
                                 \o upgrade_image_tag
                                 \o PreflightText.does_not_exist))
    ELSE Returned(image_tag)

\* format_pre_comment, the links and the image tag given
format_pre_comment(tag, dashboard_link, validator_logs_link, humio_link) ==
    CommentText.pre_start \o tag
    \o CommentText.grafana \o dashboard_link
    \o CommentText.validator \o validator_logs_link
    \o CommentText.humio \o humio_link \o CommentText.close
    \o CommentText.pre_end

Formatter(filename, fmt) == [filename |-> filename, fmt |-> fmt]

\* the list `outputs` without the formatter of the comment
TestOutputs_NoComment(o) ==
    (IF Truthy(o.forge_output)
     THEN <<Formatter(o.forge_output, "output")>> ELSE <<>>)
    \o (IF Truthy(o.forge_report)
        THEN <<Formatter(o.forge_report, "report")>> ELSE <<>>)

\* the list `outputs` the test command builds from its options
TestOutputs(o) ==
    (IF Truthy(o.forge_output)
     THEN <<Formatter(o.forge_output, "output")>> ELSE <<>>)
    \o (IF Truthy(o.forge_report)
        THEN <<Formatter(o.forge_report, "report")>> ELSE <<>>)
    \o (IF Truthy(o.forge_comment)
        THEN <<Formatter(o.forge_comment, "comment")>> ELSE <<>>)

\* formatter.format(context, result) for the four formatters of the command;
\* one fixed text stands for each of the three links of a comment here (no
\* link builder raises for the time filters the comments pass: True and a
\* pair); what the link builders return is followed in SpecLink
FormatWith(fmt, o, st, out) ==
    CASE fmt = "pre_comment" ->
            Returned(format_pre_comment(o.image_tag, CommentText.banana,
                                        CommentText.banana,
                                        CommentText.banana))
      [] fmt = "output" -> Returned(out)
      [] fmt = "report" -> format_report(out)
      [] fmt = "comment" ->
            Returned(format_comment(o.image_tag, CommentText.banana,
                                    CommentText.banana,
                                    CommentText.banana, st))

\* ForgeContext.report(result, outputs): the runs of its loop.  A run that
\* completes has formatted and written every entry; open() or write() may
\* raise at any entry, after that entry was formatted.
report(outputs, o, st, out) ==
    LET file(i) ==
            [filename |-> outputs[i].filename,
             contents |-> Utf8Encode(FormatWith(outputs[i].fmt, o, st,
                                                out).value)]
        names == [i \in DOMAIN outputs |-> outputs[i].fmt]
        n == Len(outputs)
    IN  { [done |-> [i \in 1..k |-> file(i)],
           formatted |-> SubSeq(names, 1, IF k < n THEN k + 1 ELSE n),
           exc |-> IF k < n THEN Exc("OSError", <<>>) ELSE NoExc] :
          k \in 0..n }

Outcome(st, out) ==
    [raised |-> FALSE, exc |-> NoExc, state |-> st, output |-> out]
Failure(e) ==
    [raised |-> TRUE, exc |-> e, state |-> "Unset", output |-> Unset]

\* LocalForgeRunner.run, begin to end: the result it returns or the
\* exception it raises
LocalRuns(dry_run) ==
    LET run(o) ==
            IF o.raised THEN Failure(o.exc)
            ELSE Outcome(LocalOutcome(o.value).state,
                         LocalOutcome(o.value).output)
    IN  UNION { {run(o) : o \in ShellRun(c, TRUE)} :
                  c \in TestShell(dry_run, CommandChildren.test_binary) }

\* K8sForgeRunner.run, begin to end, for the logs and the answer of the
\* poll that ends the loop
K8sRuns(dry_run) ==
    LET logs == TestShell(dry_run, {Child(TRUE, 0, Answer.report)})
        phases == TestShell(dry_run, RunnerChildren.phase)
        run(l, p) ==
            IF l.raised THEN Failure(l.exc)
            ELSE IF unwrap(l.value).raised THEN Failure(unwrap(l.value).exc)
            ELSE IF p.raised THEN Failure(p.exc)
            ELSE IF unwrap(p.value).raised THEN Failure(unwrap(p.value).exc)
            ELSE IF Utf8Decode(p.value.output) = DecodeFail
            THEN Failure(DecodeError)
            ELSE Outcome(PhaseState(StrLower(Utf8Decode(p.value.output))),
                         Utf8Decode(l.value.output))
        runs == UNION { UNION { {run(l, p) : l \in ShellRun(cl, TRUE),
                                             p \in ShellRun(cp, FALSE)} :
                                  cp \in phases } : cl \in logs }
    IN  {r \in runs : r.raised \/ r.state # "None"}

\* forge_runner_mapping[forge_runner_mode]().run(context)
Runs(m, dry_run) ==
    IF m = "local" THEN LocalRuns(dry_run) ELSE K8sRuns(dry_run)

\* the values of FORGE_RUNNER_MODE
Modes == {"local", "k8s", "pre-forge", "other"}

\* the values of AWS_TOKEN_EXPIRATION in the environment
Expirations == {None, Option.exp_bad, Option.exp_past, Option.exp_future}

\* the command has its options about the credentials; the others are read
\* where the command first uses them
InitTest ==
    /\ mode = "unread"
    /\ keep_args = FALSE
    /\ ctx_procs = [kind |-> "system", names |-> <<>>]
    /\ pc = "t_start"
    /\ state = "Unset"
    /\ output = Unset
    /\ start_time = NoTime
    /\ end_time = NoTime
    /\ clock = 0
    /\ now_calls = <<>>
    /\ exc = NoExc
    /\ in_block = FALSE
    /\ child = NoChild
    /\ result = NoResult
    /\ forge_logs = Unset
    /\ kstate = "None"
    /\ attempts = 0
    /\ forge_status = Unset
    /\ polls = 0
    /\ prefix_running = TRUE
    /\ sys_procs = <<>>
    /\ killed = {}
    /\ pf = "unstarted"
    /\ pf_terminated = FALSE
    /\ pf_joined = FALSE
    /\ calls = <<>>
    /\ \E d \in BOOLEAN : \E s \in {None, Option.script} :
       \E e \in Expirations :
          opt = [read |-> TRUE,
                 dry_run |-> d,
                 aws_auth_script |-> s,
                 expiration |-> e,
                 aws_account_num |-> Unset,
                 forge_cluster_name |-> Unset,
                 ignore_cluster_warning |-> FALSE,
                 image_tag |-> Unset,
                 upgrade_image_tag |-> Unset,
                 registry |-> {},
                 unresolved |-> {},
                 forge_pre_comment |-> Unset,
                 forge_output |-> Unset,
                 forge_report |-> Unset,
                 forge_comment |-> Unset]
    /\ written = <<>>
    /\ rendered = Unset

\* the preflight check named `what` found its condition unresolved
Unresolved(what) == [opt EXCEPT !.unresolved = @ \cup {what}]

\* dry_run, or get_aws_account_num and on its failure update_aws_auth
TestAccount ==
    /\ pc = "t_start"
    /\ IF opt.dry_run
       THEN /\ opt' = [opt EXCEPT !.aws_account_num = PreflightText.account]
            /\ pc' = "t_token"
            /\ UNCHANGED <<exc, in_block, calls>>
       ELSE /\ Issue("sts")
            /\ \E c1 \in TestShell(FALSE, CommandChildren.sts) :
               \E c2 \in TestShell(FALSE, CommandChildren.script) :
               \E c3 \in TestShell(FALSE, CommandChildren.sts) :
               \E o1 \in ShellRun(c1, FALSE) : \E o2 \in ShellRun(c2, FALSE) :
               \E o3 \in ShellRun(c3, FALSE) :
                  LET first == get_aws_account_num(o1)
                      acc == IF ~first.raised THEN first
                             ELSE update_aws_auth(opt.aws_auth_script, o2, o3)
                  IN  IF acc.raised
                      THEN /\ Propagate(acc.exc)
                           /\ opt' = Unresolved("account")
                      ELSE /\ opt' = [(IF acc.value = None
                                       THEN Unresolved("account") ELSE opt)
                                      EXCEPT !.aws_account_num = acc.value]
                           /\ pc' = "t_token"
                           /\ UNCHANGED <<exc, in_block>>
    /\ UNCHANGED <<mode, res_vars, time_vars, run_vars, written, rendered>>

\* the expiration of the token is checked when an auth script is given
TestToken ==
    /\ pc = "t_token"
    /\ LET r == IF Truthy(opt.aws_auth_script)
                THEN assert_aws_token_expiration(opt.expiration)
                ELSE Returned(None)
       IN  IF r.raised THEN Propagate(r.exc)
           ELSE pc' = "t_cluster" /\ UNCHANGED <<exc, in_block>>
    /\ UNCHANGED <<mode, res_vars, time_vars, run_vars, calls, test_vars>>

\* FORGE_CLUSTER_NAME, or the name found in the current context
TestCluster ==
    /\ pc = "t_cluster"
    /\ \E name \in {None, Option.forge0, Option.devnet} :
          IF name # None
          THEN /\ opt' = [opt EXCEPT !.forge_cluster_name = name]
               /\ pc' = "t_guard"
               /\ UNCHANGED <<exc, in_block, calls>>
          ELSE /\ Issue("current-context")
               /\ \E c \in TestShell(opt.dry_run, CommandChildren.context) :
                  \E o \in ShellRun(c, FALSE) :
                     LET r == get_current_cluster_name(o)
                     IN  IF r.raised
                         THEN /\ Propagate(r.exc)
                              /\ opt' = Unresolved("cluster")
                         ELSE /\ opt' = [opt EXCEPT
                                           !.forge_cluster_name = r.value]
                              /\ pc' = "t_guard"
                              /\ UNCHANGED <<exc, in_block>>
    /\ UNCHANGED <<mode, res_vars, time_vars, run_vars, written, rendered>>

\* the asserts, without the return for a cluster that is not a forge cluster
TestGuard_NoReturn ==
    /\ pc = "t_guard"
    /\ IF opt.aws_account_num = None
       THEN Propagate(Exc("AssertionError", PreflightText.account_required))
       ELSE pc' = "t_image" /\ UNCHANGED <<exc, in_block>>
    /\ UNCHANGED <<mode, res_vars, time_vars, run_vars, calls, test_vars>>

\* the asserts, and the return for a cluster that is not a forge cluster
TestGuard ==
    /\ pc = "t_guard"
    /\ IF opt.aws_account_num = None
       THEN /\ Propagate(Exc("AssertionError", PreflightText.account_required))
            /\ UNCHANGED opt
       ELSE IF ~Contains(PreflightText.forge, opt.forge_cluster_name)
       THEN \E ignore \in BOOLEAN :
               /\ opt' = [opt EXCEPT !.ignore_cluster_warning = ignore]
               /\ pc' = IF ignore THEN "t_image" ELSE "returned"
               /\ UNCHANGED <<exc, in_block>>
       ELSE /\ pc' = "t_image"
            /\ UNCHANGED <<opt, exc, in_block>>
    /\ UNCHANGED <<mode, res_vars, time_vars, run_vars, calls, written,
                   rendered>>

\* the tags of the registry that the options IMAGE_TAG = tag and
\* UPGRADE_IMAGE_TAG = up can ask for
Asked(dry_run, tag, up) ==
    (IF tag = None THEN {Revisions(dry_run)[1]} ELSE {tag})
    \cup (IF Truthy(up) THEN {up} ELSE {})

\* IMAGE_TAG and UPGRADE_IMAGE_TAG against the registry
TestImage ==
    /\ pc = "t_image"
    /\ \E tag \in {None, Option.tag} : \E up \in {None, Option.upgrade} :
       \E registry \in SUBSET Asked(opt.dry_run, tag, up) :
          LET img == ChooseImage(opt.dry_run, registry, tag, up)
              missing ==
                  {w \in {"image", "upgrade_image", "recent_image"} :
                     \/ /\ w = "image"
                        /\ tag # None
                        /\ ~image_exists(opt.dry_run, registry, tag)
                     \/ /\ w = "upgrade_image"
                        /\ Truthy(up)
                        /\ ~image_exists(opt.dry_run, registry, up)
                     \/ /\ w = "recent_image"
                        /\ tag = None
                        /\ find_recent_image(opt.dry_run, registry,
                                             Revisions(opt.dry_run)).raised}
          IN  /\ opt' = [opt EXCEPT
                           !.image_tag = IF img.raised THEN tag ELSE img.value,
                           !.upgrade_image_tag = up,
                           !.registry = registry,
                           !.unresolved = @ \cup missing]
              /\ IF img.raised THEN Propagate(img.exc)
                 ELSE pc' = "t_pre" /\ UNCHANGED <<exc, in_block>>
    /\ Issue("describe-images")
    /\ UNCHANGED <<mode, res_vars, time_vars, run_vars, written, rendered>>

\* a report of the pre-run comment that sets the image tag of the context
TestPreComment_Retags ==
    /\ pc = "t_pre"
    /\ \E f \in {None, Option.pre} : \E m \in Modes :
          LET o == [opt EXCEPT !.forge_pre_comment = f,
                               !.image_tag = Option.upgrade]
              outputs == IF Truthy(f) THEN <<Formatter(f, "pre_comment")>>
                         ELSE <<>>
          IN  /\ opt' = o
              /\ mode' = m
              /\ \E r \in report(outputs, o, "EMPTY", <<>>) :
                    /\ written' = written \o r.done
                    /\ calls' = calls \o r.formatted
                    /\ IF r.exc # NoExc THEN Propagate(r.exc)
                       ELSE /\ pc' = IF m = "pre-forge" THEN "returned"
                                     ELSE "t_run"
                            /\ UNCHANGED <<exc, in_block>>
    /\ UNCHANGED <<res_vars, time_vars, run_vars, rendered>>

\* the report of the pre-run comment with an EMPTY result, and the return
\* of the mode pre-forge
TestPreComment ==
    /\ pc = "t_pre"
    /\ \E f \in {None, Option.pre} : \E m \in Modes :
          LET o == [opt EXCEPT !.forge_pre_comment = f]
              outputs == IF Truthy(f) THEN <<Formatter(f, "pre_comment")>>
                         ELSE <<>>
          IN  /\ opt' = o
              /\ mode' = m
              /\ \E r \in report(outputs, o, "EMPTY", <<>>) :
                    /\ written' = written \o r.done
                    /\ calls' = calls \o r.formatted
                    /\ IF r.exc # NoExc THEN Propagate(r.exc)
                       ELSE /\ pc' = IF m = "pre-forge" THEN "returned"
                                     ELSE "t_run"
                            /\ UNCHANGED <<exc, in_block>>
    /\ UNCHANGED <<res_vars, time_vars, run_vars, rendered>>

\* a command that exits when the result of the run is FAIL
AfterRun_FailExits(st) ==
    IF st = "FAIL" THEN Exc("SystemExit", <<>>) ELSE NoExc

\* what the command raises once the runner has returned a result with the
\* state st: it reads no state, and goes on to print and to report
AfterRun(st) == NoExc

\* the runner of the mode is looked up and run
TestRun ==
    /\ pc = "t_run"
    /\ IF mode \notin {"local", "k8s"}
       THEN /\ Propagate(Exc("KeyError", <<>>))
            /\ UNCHANGED <<res_vars, time_vars, calls>>
       ELSE /\ calls' = Append(calls, "run")
            /\ \E o \in Runs(mode, opt.dry_run) :
                  IF o.raised
                  THEN Propagate(o.exc) /\ UNCHANGED <<res_vars, time_vars>>
                  ELSE /\ state' = o.state
                       /\ output' = o.output
                       /\ start_time' = clock
                       /\ end_time' = clock + 1
                       /\ clock' = clock + 1
                       /\ now_calls' =
                             now_calls
                             \o (IF mode = "k8s" THEN <<"epoch">> ELSE <<>>)
                             \o <<"with_context", "with_context">>
                       /\ IF AfterRun(o.state) # NoExc
                          THEN Propagate(AfterRun(o.state))
                          ELSE /\ pc' = "t_report"
                               /\ UNCHANGED <<exc, in_block>>
    /\ UNCHANGED <<mode, run_vars, test_vars>>

\* print(result.format()), the list of outputs and its report
TestReport ==
    /\ pc = "t_report"
    /\ \E fo \in {None, Option.output} : \E fr \in {None, Option.report} :
       \E fc \in {None, Option.comment} :
          LET o == [opt EXCEPT !.forge_output = fo, !.forge_report = fr,
                               !.forge_comment = fc]
          IN  /\ opt' = o
              /\ \E r \in report(TestOutputs(o), o, state, output) :
                    /\ written' = written \o r.done
                    /\ calls' = calls \o r.formatted
                    /\ IF r.exc # NoExc THEN Propagate(r.exc)
                       ELSE pc' = "returned" /\ UNCHANGED <<exc, in_block>>
    /\ rendered' = format(state)
    /\ UNCHANGED <<mode, res_vars, time_vars, run_vars>>

NextTest ==
    \/ TestAccount
    \/ TestToken
    \/ TestCluster
    \/ TestGuard
    \/ TestImage
    \/ TestPreComment
    \/ TestRun
    \/ TestReport

SpecTest == InitTest /\ [][NextTest]_vars

----------------------------------------------------------------------------
(* Properties of the formatters.                                           *)

\* the lines at the positions idx, in their order
Pick(lines, idx) ==
    LET F[i \in 0..Len(lines)] ==
            IF i = 0 THEN <<>>
            ELSE IF i \in idx THEN Append(F[i - 1], lines[i]) ELSE F[i - 1]
    IN  F[Len(lines)]

\* the lines lying between a begin line and the end line that follows it
Enclosed(lines) ==
    Pick(lines,
         { i \in 1..Len(lines) :
             /\ ~IsSentinel(lines[i])
             /\ \E b \in 1..(i - 1) : \E e \in (i + 1)..Len(lines) :
                    /\ lines[b] = Sentinel.begin
                    /\ lines[e] = Sentinel.end
                    /\ \A k \in (b + 1)..(e - 1) : lines[k] # Sentinel.end })

\* C18: what format_report returns is made from exactly the lines of the
\* output that lie between a begin sentinel and the end sentinel following
\* it.
C18_ReportFromEnclosed ==
    pc = "f_report" =>
        rendered = FromReportLines(Enclosed(SplitLines(output)))

\* C19: applied to a str, format_report does not raise and changes neither
\* state nor output of the result; without sentinel lines it returns the
\* "terminated" text, for lines that do not parse (or parse to something
\* without .get) a text that starts "Forge report malformed: " and holds
\* the error, for an empty or missing "text" the "text empty" text; no two
\* of the three texts are equal.
C19_ReportTotal ==
    [][(FormatReport /\ output # None) =>
         LET lines == SplitLines(output)
             rec == Recorded(lines, FALSE)
             t == ReportText(rec)
         IN  /\ pc' = "f_report"
             /\ exc' = NoExc
             /\ state' = state
             /\ output' = output
             /\ (\A i \in 1..Len(lines) : ~IsSentinel(lines[i])) =>
                    rendered' = ReportMsg.terminated
             /\ (rec # <<>> /\ t.raised) =>
                    /\ IsPrefixAt(ReportMsg.malformed, rendered', 1)
                    /\ Contains(Str(t.exc), rendered')
             /\ (rec # <<>> /\ ~t.raised /\ ~Truthy(t.value)) =>
                    rendered' = ReportMsg.text_empty
             /\ ReportMsg.terminated # ReportMsg.text_empty
             /\ ~IsPrefixAt(ReportMsg.malformed, ReportMsg.terminated, 1)
             /\ ~IsPrefixAt(ReportMsg.malformed, ReportMsg.text_empty, 1)]_vars

\* a list between the sentinels: the AttributeError of .get was caught
C19_Witness ==
    /\ pc = "f_report"
    /\ SplitLines(output) = <<Sentinel.begin, ReportLine.list, Sentinel.end>>
    /\ IsPrefixAt(ReportMsg.malformed, rendered, 1)
    /\ Contains(ReportMsg.no_get, rendered)
    /\ exc = NoExc

\* "Forge passed", "Forge failed", "Forge skipped"
Expected ==
    [ PASS |-> <<70, 111, 114, 103, 101, 32, 112, 97, 115, 115, 101, 100>>,
      FAIL |-> <<70, 111, 114, 103, 101, 32, 102, 97, 105, 108, 101, 100>>,
      SKIP |->
        <<70, 111, 114, 103, 101, 32, 115, 107, 105, 112, 112, 101, 100>> ]

\* the message the state of a result is to give
Message(st) == Expected[st]

\* C20: format gives "Forge passed", "Forge failed", "Forge skipped" for
\* PASS, FAIL, SKIP, and the comment holds that message.
C20_Messages ==
    /\ pc = "f_format" => rendered = Message(state)
    /\ pc = "f_comment" => Contains(Message(state), rendered)

----------------------------------------------------------------------------
(* Properties of the test command.                                         *)

Issued(cmd) == \E i \in DOMAIN calls : calls[i] = cmd

\* the files written after the run: those after the pre-run comment
PostRun ==
    LET pre == IF Truthy(opt.forge_pre_comment) THEN 1 ELSE 0
    IN  SubSeq(written, pre + 1, Len(written))

\* the targets the options configure, in the order output, report, comment
Targets ==
    SelectSeq(<<opt.forge_output, opt.forge_report, opt.forge_comment>>,
              Truthy)

IsPostRunFormat(c) == c \in {"output", "report", "comment"}

\* the text that belongs in the file of a target
TargetText(filename) ==
    IF filename = opt.forge_output THEN output
    ELSE IF filename = opt.forge_report THEN format_report(output).value
    ELSE format_comment(opt.image_tag, CommentText.banana,
                        CommentText.banana, CommentText.banana, state)

\* every configured target was written once, in order, and nothing else
AllTargetsWritten ==
    /\ [i \in DOMAIN PostRun |-> PostRun[i].filename] = Targets
    /\ \A i \in DOMAIN PostRun :
          PostRun[i].contents = Utf8Encode(TargetText(PostRun[i].filename))

\* C14: when the test command has run a runner and returned, the files
\* written after the run are the configured targets among output, report
\* and comment, one file for each in this order, each holding what its
\* formatter gives for the result; every formatter was applied once; a
\* configured pre-run comment is the one file before them.
C14_ReportWrites ==
    (pc = "returned" /\ Issued("run")) =>
        /\ AllTargetsWritten
        /\ Len(SelectSeq(calls, IsPostRunFormat)) = Len(Targets)
        /\ \A i \in DOMAIN written : \A j \in DOMAIN written :
              written[i].filename = written[j].filename => i = j
        /\ Truthy(opt.forge_pre_comment) =>
              /\ written[1].filename = opt.forge_pre_comment
              /\ calls[Len(calls) - Len(Targets) - 1] = "pre_comment"

\* a run passed and all three targets were written, the report holding the
\* text of the JSON report
C14_Witness ==
    /\ pc = "returned"
    /\ state = "PASS"
    /\ Len(PostRun) = 3
    /\ PostRun[2] = [filename |-> Option.report, contents |-> ReportLine.text]
    /\ Len(written) = 4

\* C15: a result with the state FAIL takes the command to its report as
\* one with PASS does: the command then ends by returning, with every
\* configured target written, or, when a write fails, with the OSError of
\* that write; when the runner raises nothing is written after the run.
C15_FailStillReports ==
    /\ state \in {"PASS", "FAIL"} =>
          /\ pc \in {"t_report", "returned", "raised"}
          /\ pc = "raised" => exc.kind = "OSError"
          /\ pc = "returned" => exc = NoExc /\ AllTargetsWritten
    /\ (pc = "raised" /\ Issued("run") /\ state = "Unset") =>
          /\ PostRun = <<>>
          /\ SelectSeq(calls, IsPostRunFormat) = <<>>

\* a run failed and the command returned with all three targets written
C15_Witness ==
    /\ pc = "returned"
    /\ state = "FAIL"
    /\ exc = NoExc
    /\ Len(PostRun) = 3
    /\ PostRun[1] = [filename |-> Option.output, contents |-> ChildOutput.error]

\* C16: once a preflight condition is unresolved (no account number, no
\* one cluster name, a tag or upgrade tag without image, no recent image)
\* the command runs no runner, writes no file and does not return.
C16_PreflightStops ==
    opt.unresolved # {} =>
        /\ ~Issued("run")
        /\ written = <<>>
        /\ pc # "returned"

\* C17: with an expiration of the token that is missing, unparsable or
\* past, the command runs no runner and does not return.
C17_ExpiredTokenStops ==
    assert_aws_token_expiration(opt.expiration).raised =>
        /\ ~Issued("run")
        /\ pc # "returned"

----------------------------------------------------------------------------
(* The observability links.                                                *)

\* the o11y resources and the fixed parts of the links
LinkText ==
      \* "90037930-aafc-11ec-acce-2d961187411f"
    [ intern_es_default_index |->
        <<57, 48, 48, 51, 55, 57, 51, 48, 45, 97, 97, 102, 99, 45, 49, 49,
          101, 99, 45, 97, 99, 99, 101, 45, 50, 100, 57, 54, 49, 49, 56, 55,
          52, 49, 49, 102>>,
      \* "https://es.intern.aptosdev.com"
      intern_es_base_url |->
        <<104, 116, 116, 112, 115, 58, 47, 47, 101, 115, 46, 105, 110, 116,
          101, 114, 110, 46, 97, 112, 116, 111, 115, 100, 101, 118, 46, 99,
          111, 109>>,
      \* "https://o11y.aptosdev.com/grafana/d/overview/overview?orgId=1&refres
      \*   h=10s&var-Datasource=Remote%20Prometheus%20Intern"
      intern_grafana_base_url |->
        <<104, 116, 116, 112, 115, 58, 47, 47, 111, 49, 49, 121, 46, 97, 112,
          116, 111, 115, 100, 101, 118, 46, 99, 111, 109, 47, 103, 114, 97,
          102, 97, 110, 97, 47, 100, 47, 111, 118, 101, 114, 118, 105, 101,
          119, 47, 111, 118, 101, 114, 118, 105, 101, 119, 63, 111, 114, 103,
          73, 100, 61, 49, 38, 114, 101, 102, 114, 101, 115, 104, 61, 49, 48,
          115, 38, 118, 97, 114, 45, 68, 97, 116, 97, 115, 111, 117, 114, 99,
          101, 61, 82, 101, 109, 111, 116, 101, 37, 50, 48, 80, 114, 111,
          109, 101, 116, 104, 101, 117, 115, 37, 50, 48, 73, 110, 116, 101,
          114, 110>>,
      \* "d0bc5e20-badc-11ec-9a50-89b84ac337af"
      devinfra_es_default_index |->
        <<100, 48, 98, 99, 53, 101, 50, 48, 45, 98, 97, 100, 99, 45, 49, 49,
          101, 99, 45, 57, 97, 53, 48, 45, 56, 57, 98, 56, 52, 97, 99, 51,
          51, 55, 97, 102>>,
      \* "https://es.devinfra.aptosdev.com"
      devinfra_es_base_url |->
        <<104, 116, 116, 112, 115, 58, 47, 47, 101, 115, 46, 100, 101, 118,
          105, 110, 102, 114, 97, 46, 97, 112, 116, 111, 115, 100, 101, 118,
          46, 99, 111, 109>>,
      \* "https://o11y.aptosdev.com/grafana/d/overview/overview?orgId=1&refres
      \*   h=10s&var-Datasource=Remote%20Prometheus%20Devinfra"
      devinfra_grafana_base_url |->
        <<104, 116, 116, 112, 115, 58, 47, 47, 111, 49, 49, 121, 46, 97, 112,
          116, 111, 115, 100, 101, 118, 46, 99, 111, 109, 47, 103, 114, 97,
          102, 97, 110, 97, 47, 100, 47, 111, 118, 101, 114, 118, 105, 101,
          119, 47, 111, 118, 101, 114, 118, 105, 101, 119, 63, 111, 114, 103,
          73, 100, 61, 49, 38, 114, 101, 102, 114, 101, 115, 104, 61, 49, 48,
          115, 38, 118, 97, 114, 45, 68, 97, 116, 97, 115, 111, 117, 114, 99,
          101, 61, 82, 101, 109, 111, 116, 101, 37, 50, 48, 80, 114, 111,
          109, 101, 116, 104, 101, 117, 115, 37, 50, 48, 68, 101, 118, 105,
          110, 102, 114, 97>>,
      \* "https://cloud.us.humio.com/k8s/search?query=%24forgeLogs%28validator
      \*   _instance%3Dvalidator-0%29%20%7C%20$FORGE_NAMESPACE%20&live=true&st
      \*   art=24h&widgetType=list-view&columns=%5B%7B%22type%22%3A%22field%22
      \*   %2C%22fieldName%22%3A%22%40timestamp%22%2C%22format%22%3A%22timesta
      \*   mp%22%2C%22width%22%3A180%7D%2C%7B%22type%22%3A%22field%22%2C%22fie
      \*   ldName%22%3A%22level%22%2C%22format%22%3A%22text%22%2C%22width%22%3
      \*   A54%7D%2C%7B%22type%22%3A%22link%22%2C%22openInNewBrowserTab%22%3At
      \*   rue%2C%22style%22%3A%22button%22%2C%22hrefTemplate%22%3A%22https%3A
      \*   %2F%2Fgithub.com%2Faptos-labs%2Faptos-core%2Fpull%2F%7B%7Bfields%5B
      \*   %5C%22github_pr%5C%22%5D%7D%7D%22%2C%22textTemplate%22%3A%22%7B%7Bf
      \*   ields%5B%5C%22github_pr%5C%22%5D%7D%7D%22%2C%22header%22%3A%22Forge
      \*   %20PR%22%2C%22width%22%3A79%7D%2C%7B%22type%22%3A%22field%22%2C%22f
      \*   ieldName%22%3A%22k8s.namespace%22%2C%22format%22%3A%22text%22%2C%22
      \*   width%22%3A104%7D%2C%7B%22type%22%3A%22field%22%2C%22fieldName%22%3
      \*   A%22k8s.pod_name%22%2C%22format%22%3A%22text%22%2C%22width%22%3A126
      \*   %7D%2C%7B%22type%22%3A%22field%22%2C%22fieldName%22%3A%22k8s.contai
      \*   ner_name%22%2C%22format%22%3A%22text%22%2C%22width%22%3A85%7D%2C%7B
      \*   %22type%22%3A%22field%22%2C%22fieldName%22%3A%22message%22%2C%22for
      \*   mat%22%3A%22text%22%7D%5D&newestAtBottom=true&showOnlyFirstLine=fal
      \*   se"
      humio_logs_link |->
        <<104, 116, 116, 112, 115, 58, 47, 47, 99, 108, 111, 117, 100, 46,
          117, 115, 46, 104, 117, 109, 105, 111, 46, 99, 111, 109, 47, 107,
          56, 115, 47, 115, 101, 97, 114, 99, 104, 63, 113, 117, 101, 114,
          121, 61, 37, 50, 52, 102, 111, 114, 103, 101, 76, 111, 103, 115,
          37, 50, 56, 118, 97, 108, 105, 100, 97, 116, 111, 114, 95, 105,
          110, 115, 116, 97, 110, 99, 101, 37, 51, 68, 118, 97, 108, 105,
          100, 97, 116, 111, 114, 45, 48, 37, 50, 57, 37, 50, 48, 37, 55, 67,
          37, 50, 48, 36, 70, 79, 82, 71, 69, 95, 78, 65, 77, 69, 83, 80, 65,
          67, 69, 37, 50, 48, 38, 108, 105, 118, 101, 61, 116, 114, 117, 101,
          38, 115, 116, 97, 114, 116, 61, 50, 52, 104, 38, 119, 105, 100,
          103, 101, 116, 84, 121, 112, 101, 61, 108, 105, 115, 116, 45, 118,
          105, 101, 119, 38, 99, 111, 108, 117, 109, 110, 115, 61, 37, 53,
          66, 37, 55, 66, 37, 50, 50, 116, 121, 112, 101, 37, 50, 50, 37, 51,
          65, 37, 50, 50, 102, 105, 101, 108, 100, 37, 50, 50, 37, 50, 67,
          37, 50, 50, 102, 105, 101, 108, 100, 78, 97, 109, 101, 37, 50, 50,
          37, 51, 65, 37, 50, 50, 37, 52, 48, 116, 105, 109, 101, 115, 116,
          97, 109, 112, 37, 50, 50, 37, 50, 67, 37, 50, 50, 102, 111, 114,
          109, 97, 116, 37, 50, 50, 37, 51, 65, 37, 50, 50, 116, 105, 109,
          101, 115, 116, 97, 109, 112, 37, 50, 50, 37, 50, 67, 37, 50, 50,
          119, 105, 100, 116, 104, 37, 50, 50, 37, 51, 65, 49, 56, 48, 37,
          55, 68, 37, 50, 67, 37, 55, 66, 37, 50, 50, 116, 121, 112, 101, 37,
          50, 50, 37, 51, 65, 37, 50, 50, 102, 105, 101, 108, 100, 37, 50,
          50, 37, 50, 67, 37, 50, 50, 102, 105, 101, 108, 100, 78, 97, 109,
          101, 37, 50, 50, 37, 51, 65, 37, 50, 50, 108, 101, 118, 101, 108,
          37, 50, 50, 37, 50, 67, 37, 50, 50, 102, 111, 114, 109, 97, 116,
          37, 50, 50, 37, 51, 65, 37, 50, 50, 116, 101, 120, 116, 37, 50, 50,
          37, 50, 67, 37, 50, 50, 119, 105, 100, 116, 104, 37, 50, 50, 37,
          51, 65, 53, 52, 37, 55, 68, 37, 50, 67, 37, 55, 66, 37, 50, 50,
          116, 121, 112, 101, 37, 50, 50, 37, 51, 65, 37, 50, 50, 108, 105,
          110, 107, 37, 50, 50, 37, 50, 67, 37, 50, 50, 111, 112, 101, 110,
          73, 110, 78, 101, 119, 66, 114, 111, 119, 115, 101, 114, 84, 97,
          98, 37, 50, 50, 37, 51, 65, 116, 114, 117, 101, 37, 50, 67, 37, 50,
          50, 115, 116, 121, 108, 101, 37, 50, 50, 37, 51, 65, 37, 50, 50,
          98, 117, 116, 116, 111, 110, 37, 50, 50, 37, 50, 67, 37, 50, 50,
          104, 114, 101, 102, 84, 101, 109, 112, 108, 97, 116, 101, 37, 50,
          50, 37, 51, 65, 37, 50, 50, 104, 116, 116, 112, 115, 37, 51, 65,
          37, 50, 70, 37, 50, 70, 103, 105, 116, 104, 117, 98, 46, 99, 111,
          109, 37, 50, 70, 97, 112, 116, 111, 115, 45, 108, 97, 98, 115, 37,
          50, 70, 97, 112, 116, 111, 115, 45, 99, 111, 114, 101, 37, 50, 70,
          112, 117, 108, 108, 37, 50, 70, 37, 55, 66, 37, 55, 66, 102, 105,
          101, 108, 100, 115, 37, 53, 66, 37, 53, 67, 37, 50, 50, 103, 105,
          116, 104, 117, 98, 95, 112, 114, 37, 53, 67, 37, 50, 50, 37, 53,
          68, 37, 55, 68, 37, 55, 68, 37, 50, 50, 37, 50, 67, 37, 50, 50,
          116, 101, 120, 116, 84, 101, 109, 112, 108, 97, 116, 101, 37, 50,
          50, 37, 51, 65, 37, 50, 50, 37, 55, 66, 37, 55, 66, 102, 105, 101,
          108, 100, 115, 37, 53, 66, 37, 53, 67, 37, 50, 50, 103, 105, 116,
          104, 117, 98, 95, 112, 114, 37, 53, 67, 37, 50, 50, 37, 53, 68, 37,
          55, 68, 37, 55, 68, 37, 50, 50, 37, 50, 67, 37, 50, 50, 104, 101,
          97, 100, 101, 114, 37, 50, 50, 37, 51, 65, 37, 50, 50, 70, 111,
          114, 103, 101, 37, 50, 48, 80, 82, 37, 50, 50, 37, 50, 67, 37, 50,
          50, 119, 105, 100, 116, 104, 37, 50, 50, 37, 51, 65, 55, 57, 37,
          55, 68, 37, 50, 67, 37, 55, 66, 37, 50, 50, 116, 121, 112, 101, 37,
          50, 50, 37, 51, 65, 37, 50, 50, 102, 105, 101, 108, 100, 37, 50,
          50, 37, 50, 67, 37, 50, 50, 102, 105, 101, 108, 100, 78, 97, 109,
          101, 37, 50, 50, 37, 51, 65, 37, 50, 50, 107, 56, 115, 46, 110, 97,
          109, 101, 115, 112, 97, 99, 101, 37, 50, 50, 37, 50, 67, 37, 50,
          50, 102, 111, 114, 109, 97, 116, 37, 50, 50, 37, 51, 65, 37, 50,
          50, 116, 101, 120, 116, 37, 50, 50, 37, 50, 67, 37, 50, 50, 119,
          105, 100, 116, 104, 37, 50, 50, 37, 51, 65, 49, 48, 52, 37, 55, 68,
          37, 50, 67, 37, 55, 66, 37, 50, 50, 116, 121, 112, 101, 37, 50, 50,
          37, 51, 65, 37, 50, 50, 102, 105, 101, 108, 100, 37, 50, 50, 37,
          50, 67, 37, 50, 50, 102, 105, 101, 108, 100, 78, 97, 109, 101, 37,
          50, 50, 37, 51, 65, 37, 50, 50, 107, 56, 115, 46, 112, 111, 100,
          95, 110, 97, 109, 101, 37, 50, 50, 37, 50, 67, 37, 50, 50, 102,
          111, 114, 109, 97, 116, 37, 50, 50, 37, 51, 65, 37, 50, 50, 116,
          101, 120, 116, 37, 50, 50, 37, 50, 67, 37, 50, 50, 119, 105, 100,
          116, 104, 37, 50, 50, 37, 51, 65, 49, 50, 54, 37, 55, 68, 37, 50,
          67, 37, 55, 66, 37, 50, 50, 116, 121, 112, 101, 37, 50, 50, 37, 51,
          65, 37, 50, 50, 102, 105, 101, 108, 100, 37, 50, 50, 37, 50, 67,
          37, 50, 50, 102, 105, 101, 108, 100, 78, 97, 109, 101, 37, 50, 50,
          37, 51, 65, 37, 50, 50, 107, 56, 115, 46, 99, 111, 110, 116, 97,
          105, 110, 101, 114, 95, 110, 97, 109, 101, 37, 50, 50, 37, 50, 67,
          37, 50, 50, 102, 111, 114, 109, 97, 116, 37, 50, 50, 37, 51, 65,
          37, 50, 50, 116, 101, 120, 116, 37, 50, 50, 37, 50, 67, 37, 50, 50,
          119, 105, 100, 116, 104, 37, 50, 50, 37, 51, 65, 56, 53, 37, 55,
          68, 37, 50, 67, 37, 55, 66, 37, 50, 50, 116, 121, 112, 101, 37, 50,
          50, 37, 51, 65, 37, 50, 50, 102, 105, 101, 108, 100, 37, 50, 50,
          37, 50, 67, 37, 50, 50, 102, 105, 101, 108, 100, 78, 97, 109, 101,
          37, 50, 50, 37, 51, 65, 37, 50, 50, 109, 101, 115, 115, 97, 103,
          101, 37, 50, 50, 37, 50, 67, 37, 50, 50, 102, 111, 114, 109, 97,
          116, 37, 50, 50, 37, 51, 65, 37, 50, 50, 116, 101, 120, 116, 37,
          50, 50, 37, 55, 68, 37, 53, 68, 38, 110, 101, 119, 101, 115, 116,
          65, 116, 66, 111, 116, 116, 111, 109, 61, 116, 114, 117, 101, 38,
          115, 104, 111, 119, 79, 110, 108, 121, 70, 105, 114, 115, 116, 76,
          105, 110, 101, 61, 102, 97, 108, 115, 101>>,
      \* "$FORGE_NAMESPACE"
      forge_namespace_var |->
        <<36, 70, 79, 82, 71, 69, 95, 78, 65, 77, 69, 83, 80, 65, 67, 69>>,
      \* "aptos-node-0-validator-0"
      val0_hostname |->
        <<97, 112, 116, 111, 115, 45, 110, 111, 100, 101, 45, 48, 45, 118,
          97, 108, 105, 100, 97, 116, 111, 114, 45, 48>>,
      \* "refreshInterval:(pause:!f,value:10000),time:(from:now-15m,to:now)"
      es_relative |->
        <<114, 101, 102, 114, 101, 115, 104, 73, 110, 116, 101, 114, 118, 97,
          108, 58, 40, 112, 97, 117, 115, 101, 58, 33, 102, 44, 118, 97, 108,
          117, 101, 58, 49, 48, 48, 48, 48, 41, 44, 116, 105, 109, 101, 58,
          40, 102, 114, 111, 109, 58, 110, 111, 119, 45, 49, 53, 109, 44,
          116, 111, 58, 110, 111, 119, 41>>,
      \* "refreshInterval:(pause:!t,value:0),time:(from:'"
      es_from |->
        <<114, 101, 102, 114, 101, 115, 104, 73, 110, 116, 101, 114, 118, 97,
          108, 58, 40, 112, 97, 117, 115, 101, 58, 33, 116, 44, 118, 97, 108,
          117, 101, 58, 48, 41, 44, 116, 105, 109, 101, 58, 40, 102, 114,
          111, 109, 58, 39>>,
      \* "',to:'"
      es_to |->
        <<39, 44, 116, 111, 58, 39>>,
      \* "')"
      es_close |->
        <<39, 41>>,
      \* ".000Z"
      es_millis |->
        <<46, 48, 48, 48, 90>>,
      \* "&refresh=10s&from=now-15m&to=now"
      grafana_relative |->
        <<38, 114, 101, 102, 114, 101, 115, 104, 61, 49, 48, 115, 38, 102,
          114, 111, 109, 61, 110, 111, 119, 45, 49, 53, 109, 38, 116, 111,
          61, 110, 111, 119>>,
      \* "&from="
      grafana_from |->
        <<38, 102, 114, 111, 109, 61>>,
      \* "&to="
      grafana_to |->
        <<38, 116, 111, 61>>,
      \* "&var-namespace="
      var_namespace |->
        <<38, 118, 97, 114, 45, 110, 97, 109, 101, 115, 112, 97, 99, 101,
          61>>,
      \* "&var-chain_name="
      var_chain_name |->
        <<38, 118, 97, 114, 45, 99, 104, 97, 105, 110, 95, 110, 97, 109, 101,
          61>>,
      \* "Invalid refresh argument: "
      invalid |->
        <<73, 110, 118, 97, 108, 105, 100, 32, 114, 101, 102, 114, 101, 115,
          104, 32, 97, 114, 103, 117, 109, 101, 110, 116, 58, 32>>,
      \* "True"
      true |->
        <<84, 114, 117, 101>>,
      \* "False"
      false |->
        <<70, 97, 108, 115, 101>>,
      \* "None"
      none |->
        <<78, 111, 110, 101>>,
      \* "aptos-"
      aptos_dash |->
        <<97, 112, 116, 111, 115, 45>>,
      \* "forge"
      forge |->
        <<102, 111, 114, 103, 101>>,
      \* "net"
      net |->
        <<110, 101, 116>> ]

\* the constant parts of the f-string get_validator_logs_link returns,
\* in their order
LogsLinkPart ==
      \* "\n        "
    [ p1 |->
        <<10, 32, 32, 32, 32, 32, 32, 32, 32>>,
      \* "/_dashboards/app/discover#/?\n        _g=(filters:!(), "
      p2 |->
        <<47, 95, 100, 97, 115, 104, 98, 111, 97, 114, 100, 115, 47, 97, 112,
          112, 47, 100, 105, 115, 99, 111, 118, 101, 114, 35, 47, 63, 10, 32,
          32, 32, 32, 32, 32, 32, 32, 95, 103, 61, 40, 102, 105, 108, 116,
          101, 114, 115, 58, 33, 40, 41, 44, 32>>,
      \* ")\n        &_a=(\n            columns:!(_source),\n            filte
      \*   rs:!((\n                '$state':(store:appState),\n               
      \*    meta:(\n                    alias:!n,\n                    disable
      \*   d:!f,\n                    index:'"
      p3 |->
        <<41, 10, 32, 32, 32, 32, 32, 32, 32, 32, 38, 95, 97, 61, 40, 10, 32,
          32, 32, 32, 32, 32, 32, 32, 32, 32, 32, 32, 99, 111, 108, 117, 109,
          110, 115, 58, 33, 40, 95, 115, 111, 117, 114, 99, 101, 41, 44, 10,
          32, 32, 32, 32, 32, 32, 32, 32, 32, 32, 32, 32, 102, 105, 108, 116,
          101, 114, 115, 58, 33, 40, 40, 10, 32, 32, 32, 32, 32, 32, 32, 32,
          32, 32, 32, 32, 32, 32, 32, 32, 39, 36, 115, 116, 97, 116, 101, 39,
          58, 40, 115, 116, 111, 114, 101, 58, 97, 112, 112, 83, 116, 97,
          116, 101, 41, 44, 10, 32, 32, 32, 32, 32, 32, 32, 32, 32, 32, 32,
          32, 32, 32, 32, 32, 109, 101, 116, 97, 58, 40, 10, 32, 32, 32, 32,
          32, 32, 32, 32, 32, 32, 32, 32, 32, 32, 32, 32, 32, 32, 32, 32, 97,
          108, 105, 97, 115, 58, 33, 110, 44, 10, 32, 32, 32, 32, 32, 32, 32,
          32, 32, 32, 32, 32, 32, 32, 32, 32, 32, 32, 32, 32, 100, 105, 115,
          97, 98, 108, 101, 100, 58, 33, 102, 44, 10, 32, 32, 32, 32, 32, 32,
          32, 32, 32, 32, 32, 32, 32, 32, 32, 32, 32, 32, 32, 32, 105, 110,
          100, 101, 120, 58, 39>>,
      \* "',\n                    key:chain_name,\n                    negate:
      \*   !f,\n                    params:(query:"
      p4 |->
        <<39, 44, 10, 32, 32, 32, 32, 32, 32, 32, 32, 32, 32, 32, 32, 32, 32,
          32, 32, 32, 32, 32, 32, 107, 101, 121, 58, 99, 104, 97, 105, 110,
          95, 110, 97, 109, 101, 44, 10, 32, 32, 32, 32, 32, 32, 32, 32, 32,
          32, 32, 32, 32, 32, 32, 32, 32, 32, 32, 32, 110, 101, 103, 97, 116,
          101, 58, 33, 102, 44, 10, 32, 32, 32, 32, 32, 32, 32, 32, 32, 32,
          32, 32, 32, 32, 32, 32, 32, 32, 32, 32, 112, 97, 114, 97, 109, 115,
          58, 40, 113, 117, 101, 114, 121, 58>>,
      \* "),\n                    type:phrase\n                ),\n           
      \*        query:(match_phrase:(chain_name:"
      p5 |->
        <<41, 44, 10, 32, 32, 32, 32, 32, 32, 32, 32, 32, 32, 32, 32, 32, 32,
          32, 32, 32, 32, 32, 32, 116, 121, 112, 101, 58, 112, 104, 114, 97,
          115, 101, 10, 32, 32, 32, 32, 32, 32, 32, 32, 32, 32, 32, 32, 32,
          32, 32, 32, 41, 44, 10, 32, 32, 32, 32, 32, 32, 32, 32, 32, 32, 32,
          32, 32, 32, 32, 32, 113, 117, 101, 114, 121, 58, 40, 109, 97, 116,
          99, 104, 95, 112, 104, 114, 97, 115, 101, 58, 40, 99, 104, 97, 105,
          110, 95, 110, 97, 109, 101, 58>>,
      \* "))\n            ),\n            (\n                '$state':(store:a
      \*   ppState),\n                meta:(\n                    alias:!n,\n 
      \*                      disabled:!f,\n                    index:'"
      p6 |->
        <<41, 41, 10, 32, 32, 32, 32, 32, 32, 32, 32, 32, 32, 32, 32, 41, 44,
          10, 32, 32, 32, 32, 32, 32, 32, 32, 32, 32, 32, 32, 40, 10, 32, 32,
          32, 32, 32, 32, 32, 32, 32, 32, 32, 32, 32, 32, 32, 32, 39, 36,
          115, 116, 97, 116, 101, 39, 58, 40, 115, 116, 111, 114, 101, 58,
          97, 112, 112, 83, 116, 97, 116, 101, 41, 44, 10, 32, 32, 32, 32,
          32, 32, 32, 32, 32, 32, 32, 32, 32, 32, 32, 32, 109, 101, 116, 97,
          58, 40, 10, 32, 32, 32, 32, 32, 32, 32, 32, 32, 32, 32, 32, 32, 32,
          32, 32, 32, 32, 32, 32, 97, 108, 105, 97, 115, 58, 33, 110, 44, 10,
          32, 32, 32, 32, 32, 32, 32, 32, 32, 32, 32, 32, 32, 32, 32, 32, 32,
          32, 32, 32, 100, 105, 115, 97, 98, 108, 101, 100, 58, 33, 102, 44,
          10, 32, 32, 32, 32, 32, 32, 32, 32, 32, 32, 32, 32, 32, 32, 32, 32,
          32, 32, 32, 32, 105, 110, 100, 101, 120, 58, 39>>,
      \* "',\n                    key:namespace,\n                    negate:!
      \*   f,\n                    params:(query:"
      p7 |->
        <<39, 44, 10, 32, 32, 32, 32, 32, 32, 32, 32, 32, 32, 32, 32, 32, 32,
          32, 32, 32, 32, 32, 32, 107, 101, 121, 58, 110, 97, 109, 101, 115,
          112, 97, 99, 101, 44, 10, 32, 32, 32, 32, 32, 32, 32, 32, 32, 32,
          32, 32, 32, 32, 32, 32, 32, 32, 32, 32, 110, 101, 103, 97, 116,
          101, 58, 33, 102, 44, 10, 32, 32, 32, 32, 32, 32, 32, 32, 32, 32,
          32, 32, 32, 32, 32, 32, 32, 32, 32, 32, 112, 97, 114, 97, 109, 115,
          58, 40, 113, 117, 101, 114, 121, 58>>,
      \* "),\n                    type:phrase\n                ),\n           
      \*        query:(match_phrase:(namespace:"
      p8 |->
        <<41, 44, 10, 32, 32, 32, 32, 32, 32, 32, 32, 32, 32, 32, 32, 32, 32,
          32, 32, 32, 32, 32, 32, 116, 121, 112, 101, 58, 112, 104, 114, 97,
          115, 101, 10, 32, 32, 32, 32, 32, 32, 32, 32, 32, 32, 32, 32, 32,
          32, 32, 32, 41, 44, 10, 32, 32, 32, 32, 32, 32, 32, 32, 32, 32, 32,
          32, 32, 32, 32, 32, 113, 117, 101, 114, 121, 58, 40, 109, 97, 116,
          99, 104, 95, 112, 104, 114, 97, 115, 101, 58, 40, 110, 97, 109,
          101, 115, 112, 97, 99, 101, 58>>,
      \* "))\n            ),\n            (\n                '$state':(store:a
      \*   ppState),\n                meta:(\n                    alias:!n,\n 
      \*                      disabled:!f,\n                    index:'"
      p9 |->
        <<41, 41, 10, 32, 32, 32, 32, 32, 32, 32, 32, 32, 32, 32, 32, 41, 44,
          10, 32, 32, 32, 32, 32, 32, 32, 32, 32, 32, 32, 32, 40, 10, 32, 32,
          32, 32, 32, 32, 32, 32, 32, 32, 32, 32, 32, 32, 32, 32, 39, 36,
          115, 116, 97, 116, 101, 39, 58, 40, 115, 116, 111, 114, 101, 58,
          97, 112, 112, 83, 116, 97, 116, 101, 41, 44, 10, 32, 32, 32, 32,
          32, 32, 32, 32, 32, 32, 32, 32, 32, 32, 32, 32, 109, 101, 116, 97,
          58, 40, 10, 32, 32, 32, 32, 32, 32, 32, 32, 32, 32, 32, 32, 32, 32,
          32, 32, 32, 32, 32, 32, 97, 108, 105, 97, 115, 58, 33, 110, 44, 10,
          32, 32, 32, 32, 32, 32, 32, 32, 32, 32, 32, 32, 32, 32, 32, 32, 32,
          32, 32, 32, 100, 105, 115, 97, 98, 108, 101, 100, 58, 33, 102, 44,
          10, 32, 32, 32, 32, 32, 32, 32, 32, 32, 32, 32, 32, 32, 32, 32, 32,
          32, 32, 32, 32, 105, 110, 100, 101, 120, 58, 39>>,
      \* "',\n                    key:hostname,\n                    negate:!f
      \*   ,\n                    params:(query:"
      p10 |->
        <<39, 44, 10, 32, 32, 32, 32, 32, 32, 32, 32, 32, 32, 32, 32, 32, 32,
          32, 32, 32, 32, 32, 32, 107, 101, 121, 58, 104, 111, 115, 116, 110,
          97, 109, 101, 44, 10, 32, 32, 32, 32, 32, 32, 32, 32, 32, 32, 32,
          32, 32, 32, 32, 32, 32, 32, 32, 32, 110, 101, 103, 97, 116, 101,
          58, 33, 102, 44, 10, 32, 32, 32, 32, 32, 32, 32, 32, 32, 32, 32,
          32, 32, 32, 32, 32, 32, 32, 32, 32, 112, 97, 114, 97, 109, 115, 58,
          40, 113, 117, 101, 114, 121, 58>>,
      \* "),\n                    type:phrase),\n                    query:(ma
      \*   tch_phrase:(hostname:"
      p11 |->
        <<41, 44, 10, 32, 32, 32, 32, 32, 32, 32, 32, 32, 32, 32, 32, 32, 32,
          32, 32, 32, 32, 32, 32, 116, 121, 112, 101, 58, 112, 104, 114, 97,
          115, 101, 41, 44, 10, 32, 32, 32, 32, 32, 32, 32, 32, 32, 32, 32,
          32, 32, 32, 32, 32, 32, 32, 32, 32, 113, 117, 101, 114, 121, 58,
          40, 109, 97, 116, 99, 104, 95, 112, 104, 114, 97, 115, 101, 58, 40,
          104, 111, 115, 116, 110, 97, 109, 101, 58>>,
      \* ")\n                )\n            )),\n            index:'"
      p12 |->
        <<41, 10, 32, 32, 32, 32, 32, 32, 32, 32, 32, 32, 32, 32, 32, 32, 32,
          32, 41, 10, 32, 32, 32, 32, 32, 32, 32, 32, 32, 32, 32, 32, 41, 41,
          44, 10, 32, 32, 32, 32, 32, 32, 32, 32, 32, 32, 32, 32, 105, 110,
          100, 101, 120, 58, 39>>,
      \* "',\n            interval:auto,query:(language:kuery,query:''),sort:!
      \*   ()\n        )\n    "
      p13 |->
        <<39, 44, 10, 32, 32, 32, 32, 32, 32, 32, 32, 32, 32, 32, 32, 105,
          110, 116, 101, 114, 118, 97, 108, 58, 97, 117, 116, 111, 44, 113,
          117, 101, 114, 121, 58, 40, 108, 97, 110, 103, 117, 97, 103, 101,
          58, 107, 117, 101, 114, 121, 44, 113, 117, 101, 114, 121, 58, 39,
          39, 41, 44, 115, 111, 114, 116, 58, 33, 40, 41, 10, 32, 32, 32, 32,
          32, 32, 32, 32, 41, 10, 32, 32, 32, 32>> ]

\* a datetime, as the fields strftime reads
DateTime(Y, m, d, H, M, S, f) ==
    [year |-> Y, month |-> m, day |-> d, hour |-> H, minute |-> M,
     second |-> S, microsecond |-> f]

\* the decimal digits of n, zero padded to width
Pad(n, width) ==
    [i \in 1..width |-> 48 + ((n \div (10 ^ (width - i))) % 10)]

\* str(n) of an int n >= 0
Dec(n) ==
    LET w == CHOOSE k \in 1..9 :
                 /\ n < 10 ^ k
                 /\ k = 1 \/ n >= 10 ^ (k - 1)
    IN  Pad(n, w)

\* dt.strftime("%Y-%m-%dT%H:%M:%S.000Z")
StrftimeEs(dt) ==
    Pad(dt.year, 4) \o <<45>> \o Pad(dt.month, 2) \o <<45>>
    \o Pad(dt.day, 2) \o <<84>> \o Pad(dt.hour, 2) \o <<58>>
    \o Pad(dt.minute, 2) \o <<58>> \o Pad(dt.second, 2)
    \o LinkText.es_millis

\* milliseconds = lambda dt: int(dt.strftime("%f")) / 1000, as f"{...}"
\* writes it: %f is the microsecond in six digits, int() reads them, and
\* the float of n / 1000 is written with the digits of its fraction that
\* are not trailing zeros, and at least one
milliseconds(dt) ==
    LET f == Pad(dt.microsecond, 6)
        n == (f[1] - 48) * 100000 + (f[2] - 48) * 10000 + (f[3] - 48) * 1000
             + (f[4] - 48) * 100 + (f[5] - 48) * 10 + (f[6] - 48)
        frac == Pad(n % 1000, 3)
        last == IF frac[3] # 48 THEN 3 ELSE IF frac[2] # 48 THEN 2 ELSE 1
    IN  Dec(n \div 1000) \o <<46>> \o SubSeq(frac, 1, last)

\* a time_filter argument: True or False (kind "bool"), None (kind
\* "none"), or a pair of datetimes (kind "tuple")
TimeFilter(kind, value, t0, t1) ==
    [kind |-> kind, value |-> value, t0 |-> t0, t1 |-> t1]

\* str(time_filter) of an argument that is no tuple
StrFilter(time_filter) ==
    IF time_filter.kind = "none" THEN LinkText.none
    ELSE IF time_filter.value THEN LinkText.true ELSE LinkText.false

\* s.replace(old, new): the occurrences of old from the left, not
\* overlapping
RECURSIVE Replace(_, _, _)
Replace(s, old, new) ==
    LET hits == {i \in 1..(Len(s) - Len(old) + 1) : IsPrefixAt(old, s, i)}
    IN  IF hits = {} THEN s
        ELSE LET i == CHOOSE h \in hits : \A j \in hits : h <= j
             IN  SubSeq(s, 1, i - 1) \o new
                 \o Replace(SubSeq(s, i + Len(old), Len(s)), old, new)

\* s.lstrip(chars): the leading characters that are in chars are dropped
LStrip(s, chars) ==
    LET keep == {i \in 1..Len(s) : \A k \in 1..Len(chars) : s[i] # chars[k]}
    IN  IF keep = {} THEN <<>>
        ELSE SubSeq(s, CHOOSE i \in keep : \A j \in keep : i <= j, Len(s))

\* ForgeContext.forge_chain_name
forge_chain_name(forge_namespace) ==
    LET name == LStrip(forge_namespace, LinkText.aptos_dash)
    IN  IF ~Contains(LinkText.forge, name) THEN name \o LinkText.net
        ELSE name

get_validator_logs_link(forge_namespace, chain_name, time_filter) ==
    LET is_true == time_filter.kind = "bool" /\ time_filter.value
        devinfra == Contains(LinkText.forge, chain_name)
        es_base_url == IF devinfra THEN LinkText.devinfra_es_base_url
                       ELSE LinkText.intern_es_base_url
        es_default_index == IF devinfra
                            THEN LinkText.devinfra_es_default_index
                            ELSE LinkText.intern_es_default_index
        val0_hostname == LinkText.val0_hostname
        es_time_filter ==
            IF is_true
            THEN LinkText.es_relative
            ELSE LinkText.es_from \o StrftimeEs(time_filter.t0)
                 \o LinkText.es_to \o StrftimeEs(time_filter.t1)
                 \o LinkText.es_close
        link ==
            LogsLinkPart.p1 \o es_base_url
            \o LogsLinkPart.p2 \o es_time_filter
            \o LogsLinkPart.p3 \o es_default_index
            \o LogsLinkPart.p4 \o chain_name
            \o LogsLinkPart.p5 \o chain_name
            \o LogsLinkPart.p6 \o es_default_index
            \o LogsLinkPart.p7 \o forge_namespace
            \o LogsLinkPart.p8 \o forge_namespace
            \o LogsLinkPart.p9 \o es_default_index
            \o LogsLinkPart.p10 \o val0_hostname
            \o LogsLinkPart.p11 \o val0_hostname
            \o LogsLinkPart.p12 \o es_default_index
            \o LogsLinkPart.p13
    IN  IF time_filter.kind = "tuple" \/ is_true
        THEN Returned(SelectSeq(SelectSeq(link, LAMBDA c : c # 32),
                                LAMBDA c : c # 10))
        ELSE Raised(Exc("Exception",
                        LinkText.invalid \o StrFilter(time_filter)))

get_dashboard_link(forge_cluster_name, forge_namespace, chain_name, time_filter) ==
    LET is_true == time_filter.kind = "bool" /\ time_filter.value
        grafana_time_filter ==
            IF is_true
            THEN LinkText.grafana_relative
            ELSE LinkText.grafana_from \o milliseconds(time_filter.t0)
                 \o LinkText.grafana_to \o milliseconds(time_filter.t1)
        base_url == IF Contains(LinkText.forge, forge_cluster_name)
                    THEN LinkText.devinfra_grafana_base_url
                    ELSE LinkText.intern_grafana_base_url
    IN  IF time_filter.kind = "tuple" \/ is_true
        THEN Returned(base_url \o LinkText.var_namespace \o forge_namespace
                      \o LinkText.var_chain_name \o chain_name
                      \o grafana_time_filter)
        ELSE Raised(Exc("Exception",
                        LinkText.invalid \o StrFilter(time_filter)))

get_humio_logs_link(forge_namespace) ==
    Replace(LinkText.humio_logs_link, LinkText.forge_namespace_var,
            forge_namespace)
\* calls of the link builders that SpecLink follows
MaxCalls == 2

\* the namespaces and the cluster names of the contexts
LinkInput ==
      \* "forge-0"
    [ forge0 |->
        <<102, 111, 114, 103, 101, 45, 48>>,
      \* "aptos-forge-1"
      aptos_forge1 |->
        <<97, 112, 116, 111, 115, 45, 102, 111, 114, 103, 101, 45, 49>>,
      \* "aptos-test"
      aptos_test |->
        <<97, 112, 116, 111, 115, 45, 116, 101, 115, 116>>,
      \* "potato"
      potato |->
        <<112, 111, 116, 97, 116, 111>>,
      \* "aptos-forge-0"
      aptos_forge0 |->
        <<97, 112, 116, 111, 115, 45, 102, 111, 114, 103, 101, 45, 48>>,
      \* "aptos-devnet"
      aptos_devnet |->
        <<97, 112, 116, 111, 115, 45, 100, 101, 118, 110, 101, 116>> ]

\* the time_filter arguments: True, False, None, and the pairs of FakeTime's
\* _now, five seconds later, and the end of the year
TimeFilters ==
    LET DateTimes == << DateTime(2022, 7, 29, 0, 0, 0, 0),
                        DateTime(2022, 7, 29, 0, 0, 5, 0),
                        DateTime(2022, 12, 31, 23, 59, 59, 1500) >>
    IN  { TimeFilter("bool", TRUE, None, None),
          TimeFilter("bool", FALSE, None, None),
          TimeFilter("none", FALSE, None, None) }
        \cup { TimeFilter("tuple", FALSE, DateTimes[i], DateTimes[j]) :
                 i \in DOMAIN DateTimes, j \in DOMAIN DateTimes }

InitLink ==
    /\ mode = "local"
    /\ keep_args = FALSE
    /\ ctx_procs = [kind |-> "system", names |-> <<>>]
    /\ pc = "c_start"
    /\ state = "Unset"
    /\ output = Unset
    /\ start_time = NoTime
    /\ end_time = NoTime
    /\ clock = 0
    /\ now_calls = <<>>
    /\ exc = NoExc
    /\ in_block = FALSE
    /\ child = NoChild
    /\ result = NoResult
    /\ forge_logs = Unset
    /\ kstate = "None"
    /\ attempts = 0
    /\ forge_status = Unset
    /\ polls = 0
    /\ prefix_running = TRUE
    /\ sys_procs = <<>>
    /\ killed = {}
    /\ pf = "unstarted"
    /\ pf_terminated = FALSE
    /\ pf_joined = FALSE
    /\ calls = <<>>
    /\ \E n \in { LinkInput.forge0, LinkInput.aptos_forge1,
                  LinkInput.aptos_test, LinkInput.potato } :
       \E c \in {LinkInput.aptos_forge0, LinkInput.aptos_devnet} :
       \E t \in TimeFilters :
          opt = [forge_namespace |-> n, forge_cluster_name |-> c,
                 time_filter |-> t]
    /\ written = <<>>
    /\ rendered = Unset

\* one call of a link builder or of the chain name: its value is kept, or
\* it raises
Call(name, r) ==
    /\ Len(calls) < MaxCalls
    /\ calls' = Append(calls, name)
    /\ IF r.raised
       THEN exc' = r.exc /\ pc' = "raised" /\ rendered' = Unset
       ELSE exc' = NoExc /\ pc' = name /\ rendered' = r.value
    /\ UNCHANGED <<mode, res_vars, time_vars, run_vars, opt, written>>

ChainName ==
    Call("forge_chain_name", Returned(forge_chain_name(opt.forge_namespace)))

ValidatorLogsLink ==
    Call("get_validator_logs_link",
         get_validator_logs_link(opt.forge_namespace,
                                 forge_chain_name(opt.forge_namespace),
                                 opt.time_filter))

DashboardLink ==
    Call("get_dashboard_link",
         get_dashboard_link(opt.forge_cluster_name, opt.forge_namespace,
                            forge_chain_name(opt.forge_namespace),
                            opt.time_filter))

HumioLogsLink ==
    Call("get_humio_logs_link",
         Returned(get_humio_logs_link(opt.forge_namespace)))

NextLink ==
    \/ ChainName
    \/ ValidatorLogsLink
    \/ DashboardLink
    \/ HumioLogsLink

SpecLink == InitLink /\ [][NextLink]_vars

----------------------------------------------------------------------------
(* Properties of the chain name and of the links.                          *)

\* s without the prefix, when it starts with it
StripPrefix(s, prefix) ==
    IF IsPrefixAt(prefix, s, 1) THEN SubSeq(s, Len(prefix) + 1, Len(s))
    ELSE s

\* the chain name a namespace is to give
ExpectedChainName(forge_namespace) ==
    LET name == StripPrefix(forge_namespace, LinkText.aptos_dash)
    IN  IF Contains(LinkText.forge, name) THEN name
        ELSE name \o LinkText.net

\* C21: forge_chain_name is the namespace without its prefix "aptos-" (the
\* rest kept, a namespace without the prefix unchanged), followed by "net"
\* exactly when the stripped name does not contain "forge".
C21_ChainName ==
    pc = "forge_chain_name" =>
        rendered = ExpectedChainName(opt.forge_namespace)

\* C22: both link builders take the devinfra backend when the chain name
\* contains "forge" and the intern backend when it does not.
C22_BackendByChainName ==
    LET marked ==
            Contains(LinkText.forge, forge_chain_name(opt.forge_namespace))
    IN  /\ pc = "get_validator_logs_link" =>
              IF marked
              THEN IsPrefixAt(LinkText.devinfra_es_base_url, rendered, 1)
              ELSE IsPrefixAt(LinkText.intern_es_base_url, rendered, 1)
        /\ pc = "get_dashboard_link" =>
              IF marked
              THEN IsPrefixAt(LinkText.devinfra_grafana_base_url, rendered, 1)
              ELSE IsPrefixAt(LinkText.intern_grafana_base_url, rendered, 1)

EndsWith(s, suffix) ==
    /\ Len(suffix) <= Len(s)
    /\ SubSeq(s, Len(s) - Len(suffix) + 1, Len(s)) = suffix

\* the link builders
Builders == {"get_validator_logs_link", "get_dashboard_link"}

\* the filter of a link, by the type of the argument
FilterByType ==
    LET tf == opt.time_filter
        IsTrue(f) == f.kind = "bool" /\ f.value
        IsTuple(f) == f.kind = "tuple"
        chain == forge_chain_name(opt.forge_namespace)
        absolute == LinkText.es_from \o StrftimeEs(tf.t0) \o LinkText.es_to
                    \o StrftimeEs(tf.t1) \o LinkText.es_close
        same(f) == get_dashboard_link(opt.forge_cluster_name,
                                      opt.forge_namespace, chain, f).value
                   = rendered
    IN  /\ (pc = "get_validator_logs_link" /\ IsTrue(tf)) =>
              /\ Contains(LinkText.es_relative, rendered)
              /\ ~Contains(LinkText.es_from, rendered)
        /\ (pc = "get_validator_logs_link" /\ IsTuple(tf)) =>
              /\ Contains(absolute, rendered)
              /\ ~Contains(LinkText.es_relative, rendered)
        /\ (pc = "get_dashboard_link" /\ IsTrue(tf)) =>
              EndsWith(rendered, LinkText.grafana_relative)
        /\ (pc = "get_dashboard_link" /\ IsTuple(tf)) =>
              /\ ~EndsWith(rendered, LinkText.grafana_relative)
              /\ \A f \in TimeFilters : (IsTuple(f) /\ same(f)) => f = tf
        /\ ( /\ calls # <<>>
             /\ calls[Len(calls)] \in Builders
             /\ ~IsTrue(tf)
             /\ ~IsTuple(tf) ) => pc = "raised"

\* a builder is called again
Repeated ==
    /\ calls # <<>>
    /\ calls[Len(calls)] \in Builders
    /\ calls' = Append(calls, calls[Len(calls)])

\* C23: True gives the relative window only, a pair (t0, t1) the absolute
\* window only, with t0 as its from value and t1 as its to value, any
\* other argument raises, and a repeated call gives the same string.
C23_TimeFilter ==
    /\ []FilterByType
    /\ [][Repeated => (rendered' = rendered /\ pc' = pc /\ exc' = exc)]_vars

----------------------------------------------------------------------------
(* Further properties of the runners.                                      *)

\* C24: the state of the result of a run is set to RUNNING once, changes
\* only from RUNNING to one of PASS, FAIL, SKIP, hence at most once, never
\* back to RUNNING and never to EMPTY, and a run that returns has made the
\* change.
C24_OneTransition ==
    /\ [][state' # state =>
            \/ state = "Unset" /\ state' = "RUNNING"
            \/ state = "RUNNING" /\ state' \in TerminalStates]_vars
    /\ [](pc = "returned" => state \in TerminalStates)

\* a local run whose result went from RUNNING to FAIL and was returned
C24_Witness ==
    /\ pc = "returned"
    /\ mode = "local"
    /\ state = "FAIL"
    /\ result.exit_code # 0

\* C24 as stated: every run that has a result, once over, has made the one
\* change of its state.
C24_ExactlyOne ==
    (pc \in {"returned", "raised"} /\ state # "Unset") =>
        state \in TerminalStates

\* setrlimit raised: the port-forward process was never started
SetupRaised == pc = "raised" /\ pf = "unstarted"

\* C25: whatever the port-forward process does, a local run whose setup
\* got as far as starting it spawns the test binary and, when the shell
\* returns its outcome with an output that decodes, returns a result whose
\* state is PASS or FAIL by the exit code alone.
C25_PortForwardNotFatal ==
    ( /\ mode = "local"
      /\ pc \in {"returned", "raised"}
      /\ ~SetupRaised
      /\ Issued("cargo") =>
            (result # NoResult /\ Decodable(result.output)) ) =>
        /\ Issued("cargo")
        /\ pc = "returned"
        /\ state = IF result.exit_code = 0 THEN "PASS" ELSE "FAIL"

\* the number of clock reads with_context made
ScopeReads ==
    Cardinality({i \in DOMAIN now_calls : now_calls[i] = "with_context"})

\* the commands a cluster run issues before its with-block
BeforeBlock == <<"delete", "wait_delete">>

\* where the stamps are made
Stamped ==
    /\ pc = "returned" =>
          /\ start_time # NoTime
          /\ end_time # NoTime
          /\ start_time <= end_time
          /\ ScopeReads = 2
    /\ start_time = NoTime =>
          /\ state = "Unset"
          /\ \A i \in DOMAIN calls : calls[i] \in {"delete", "wait_delete"}
    /\ (mode = "k8s" /\ start_time # NoTime) =>
          SubSeq(calls, 1, 2) = BeforeBlock
    /\ end_time # NoTime => pc \in {"l_cleanup", "returned", "raised"}

\* C30: start_time is stamped before the first step of the with-block and
\* end_time after the last one, a returned result has start_time <=
\* end_time, with_context has read the clock twice for it, and a cluster
\* run has deleted the pods and waited for the deletion before the stamp
\* of start_time.
C30_Stamps ==
    /\ []Stamped
    /\ [][end_time # NoTime =>
            /\ state' = state
            /\ output' = output
            /\ calls' = calls
            /\ UNCHANGED <<start_time, end_time, time_vars>>]_vars

\* a cluster run returned with the clock advanced between the two stamps
C30_Witness ==
    /\ pc = "returned"
    /\ mode = "k8s"
    /\ start_time < end_time
    /\ now_calls = <<"epoch", "with_context", "with_context">>

----------------------------------------------------------------------------
(* Further properties of the test command.                                 *)

\* the fields of the ForgeContext the command constructs
Context ==
    [ processes |-> ctx_procs,
      keep_args |-> keep_args,
      aws_account_num |-> opt.aws_account_num,
      forge_image_tag |-> opt.image_tag,
      forge_upgrade_image_tag |->
          IF Truthy(opt.upgrade_image_tag) THEN opt.upgrade_image_tag
          ELSE opt.image_tag,
      forge_cluster_name |-> opt.forge_cluster_name ]

\* C26: once the context is constructed, no step of the command (the report
\* of the pre-run comment, the run, the report of the result) changes a
\* field of it.
C26_ContextFrozen ==
    [][(pc \in {"t_pre", "t_run", "t_report"}) => (Context' = Context)]_vars

\* the command returned after a run and the report of its three targets
C26_Witness ==
    /\ pc = "returned"
    /\ Issued("run")
    /\ Len(written) = 4
    /\ Context.forge_image_tag = Option.tag
    /\ Context.forge_upgrade_image_tag = Option.upgrade

\* the preflight left the values the context needs
PreflightDone ==
    /\ opt.aws_account_num \notin {Unset, None}
    /\ opt.forge_cluster_name \notin {Unset, None}
    /\ opt.image_tag \notin {Unset, None}

\* the cluster name contains "forge", or the warning is ignored
GuardPassed ==
    \/ Contains(PreflightText.forge, opt.forge_cluster_name)
    \/ opt.ignore_cluster_warning

\* the file of the pre-run comment
PreCommentFile ==
    [filename |-> opt.forge_pre_comment,
     contents |-> Utf8Encode(FormatWith("pre_comment", opt, "EMPTY",
                                        <<>>).value)]

----------------------------------------------------------------------------
(* find_recent_image, step by step: git.last yields the revisions one by   *)
(* one, and image_exists is asked about each before the next is yielded.   *)

\* the largest commit_threshold followed
MaxThreshold == 3

\* what the shell may return for git rev-parse HEAD~i, and the tags that may
\* have an image in the repository
ImageInput ==
    [ answers |->
        { RunResult(0, <<49, 97>>),                     \* b"1a"
          RunResult(0, <<50, 98>>),                     \* b"2b"
          RunResult(0, <<51, 99, 10>>),                 \* b"3c\n"
          RunResult(0, <<255>>),                        \* not UTF-8
          RunResult(128, <<102, 97, 116, 97, 108>>) },  \* b"fatal"
      tags |-> { <<49, 97>>, <<50, 98>>, <<51, 99>> } ]

\* the variables find_recent_image leaves alone
image_frame ==
    << ctx_vars, res_vars, time_vars, child, forge_logs, kstate, attempts,
       forge_status, prefix_running, proc_vars, opt, written >>

InitImage ==
    /\ mode = "local"
    /\ keep_args = FALSE
    /\ ctx_procs = [kind |-> "system", names |-> <<>>]
    /\ pc = "i_next"
    /\ state = "Unset"
    /\ output = Unset
    /\ start_time = NoTime
    /\ end_time = NoTime
    /\ clock = 0
    /\ now_calls = <<>>
    /\ exc = NoExc
    /\ in_block = FALSE
    /\ child = NoChild
    /\ result = NoResult
    /\ forge_logs = Unset
    /\ kstate = "None"
    /\ attempts = 0
    /\ forge_status = Unset
    /\ polls = 0
    /\ prefix_running = TRUE
    /\ sys_procs = <<>>
    /\ killed = {}
    /\ pf = "unstarted"
    /\ pf_terminated = FALSE
    /\ pf_joined = FALSE
    /\ calls = <<>>
    /\ \E n \in 0..MaxThreshold :
       \E h \in [1..n -> ImageInput.answers] :
       \E reg \in SUBSET ImageInput.tags :
          opt = [commit_threshold |-> n, history |-> h, registry |-> reg]
    /\ written = <<>>
    /\ rendered = Unset

\* git.last: the next revision, from git rev-parse HEAD~i unwrapped and
\* decoded; polls is the i of range(limit)
GitLast ==
    /\ pc = "i_next"
    /\ polls < opt.commit_threshold
    /\ calls' = Append(calls, <<"rev-parse", polls>>)
    /\ polls' = polls + 1
    /\ result' = opt.history[polls + 1]
    /\ LET u == unwrap(opt.history[polls + 1])
       IN  IF u.raised
           THEN Propagate(u.exc) /\ UNCHANGED rendered
           ELSE IF Utf8Decode(u.value) = DecodeFail
           THEN Propagate(DecodeError) /\ UNCHANGED rendered
           ELSE /\ rendered' = Utf8Decode(u.value)
                /\ pc' = "i_check"
                /\ UNCHANGED <<exc, in_block>>
    /\ UNCHANGED image_frame

\* image_exists(shell, revision), and the return of the revision found
ImageExists ==
    /\ pc = "i_check"
    /\ calls' = Append(calls, <<"describe-images", rendered>>)
    /\ LET exists == image_exists(FALSE, opt.registry, rendered)
       IN  /\ result' = RunResult(IF exists THEN 0 ELSE 255, <<>>)
           /\ pc' = IF exists THEN "returned" ELSE "i_next"
    /\ UNCHANGED <<exc, in_block, polls, rendered, image_frame>>

\* the loop over git.last(commit_threshold) ended without a return
NoRecentImage ==
    /\ pc = "i_next"
    /\ polls >= opt.commit_threshold
    /\ Propagate(Exc("Exception", PreflightText.no_recent))
    /\ UNCHANGED <<calls, result, polls, rendered, image_frame>>

NextImage == GitLast \/ ImageExists \/ NoRecentImage

SpecImage == InitImage /\ [][NextImage]_vars

----------------------------------------------------------------------------
(* Properties of find_recent_image.                                        *)

\* the revision git.last yields for HEAD~i, when rev-parse answers one
RevisionAt(i) == Utf8Decode(opt.history[i + 1].output)

\* rev-parse answered a revision for HEAD~i
Yields(i) ==
    /\ opt.history[i + 1].exit_code = 0
    /\ RevisionAt(i) # DecodeFail

\* the image of the revision of HEAD~i exists
HasImage(i) == Yields(i) /\ RevisionAt(i) \in opt.registry

\* the queries made when the first k revisions were asked for and the
\* images of the first j of them
RECURSIVE Queries(_, _)
Queries(k, j) ==
    IF k = 0 THEN <<>>
    ELSE Queries(k - 1, IF j = k THEN j - 1 ELSE j)
         \o <<<<"rev-parse", k - 1>>>>
         \o (IF j = k THEN <<<<"describe-images", RevisionAt(k - 1)>>>>
             ELSE <<>>)

\* C28: find_recent_image returns the revision of the smallest i below
\* commit_threshold whose image exists, asks for the revisions and their
\* images one after the other from HEAD~0 and for nothing past the first
\* hit, and raises when none of the commit_threshold revisions has an
\* image.
C28_FirstHit ==
    /\ pc = "returned" =>
          /\ polls \in 1..opt.commit_threshold
          /\ HasImage(polls - 1)
          /\ rendered = RevisionAt(polls - 1)
          /\ \A i \in 0..(polls - 2) : Yields(i) /\ ~HasImage(i)
          /\ calls = Queries(polls, polls)
    /\ (\A i \in 0..(opt.commit_threshold - 1) : Yields(i) /\ ~HasImage(i)) =>
          /\ pc # "returned"
          /\ pc = "raised" =>
                /\ exc = Exc("Exception", PreflightText.no_recent)
                /\ calls = Queries(opt.commit_threshold, opt.commit_threshold)
    /\ pc = "raised" =>
          /\ \A i \in 0..(polls - 1) : ~HasImage(i)
          /\ \/ polls = opt.commit_threshold
             \/ ~Yields(polls - 1)

\* the third revision was returned after two without an image
C28_Witness ==
    /\ pc = "returned"
    /\ polls = 3
    /\ Len(calls) = 6
    /\ rendered \in opt.registry

\* every revision was asked for and none has an image
C28_WitnessRaised ==
    /\ pc = "raised"
    /\ opt.commit_threshold = 3
    /\ Len(calls) = 6
    /\ opt.registry # {}

----------------------------------------------------------------------------
(* LocalShell.run, step by step: the child writes to the temporary file     *)
(* while the parent polls it and reads what the file has gained.  opt      *)
(* holds the locals of run: file is the temporary file, offset the         *)
(* position of reader, output the bytes collected, exited whether the      *)
(* child has ended; rendered is what was written to sys.stdout.            *)

\* the variables LocalShell.run leaves alone
shell_frame ==
    << ctx_vars, res_vars, time_vars, forge_logs, kstate, attempts,
       forge_status, polls, prefix_running, proc_vars, calls, written >>

InitShell ==
    /\ mode = "local"
    /\ keep_args = FALSE
    /\ ctx_procs = [kind |-> "system", names |-> <<>>]
    /\ pc = "s_popen"
    /\ state = "Unset"
    /\ output = Unset
    /\ start_time = NoTime
    /\ end_time = NoTime
    /\ clock = 0
    /\ now_calls = <<>>
    /\ exc = NoExc
    /\ in_block = FALSE
    /\ child \in
          { Child(TRUE, rc, out) :
              rc \in {0, 1, -9},
              out \in { <<>>, ChildOutput.output, <<195, 169>>,
                        <<97, 195, 169>>, <<255>> } }
          \cup {NoChild}
    /\ result = NoResult
    /\ forge_logs = Unset
    /\ kstate = "None"
    /\ attempts = 0
    /\ forge_status = Unset
    /\ polls = 0
    /\ prefix_running = TRUE
    /\ sys_procs = <<>>
    /\ killed = {}
    /\ pf = "unstarted"
    /\ pf_terminated = FALSE
    /\ pf_joined = FALSE
    /\ calls = <<>>
    /\ \E s \in BOOLEAN :
          opt = [stream_output |-> s, file |-> <<>>, offset |-> 0,
                 output |-> <<>>, exited |-> FALSE]
    /\ written = <<>>
    /\ rendered = <<>>

\* subprocess.Popen(command, stdout=writer, stderr=writer)
Popen ==
    /\ pc = "s_popen"
    /\ IF ~child.spawned
       THEN Propagate(Exc("OSError", <<>>))
       ELSE pc' = "s_poll" /\ UNCHANGED <<exc, in_block>>
    /\ UNCHANGED <<child, result, opt, rendered, shell_frame>>

\* the child writes some more of its output to the file
ChildWrite ==
    /\ pc \in {"s_poll", "s_read"}
    /\ ~opt.exited
    /\ \E n \in (Len(opt.file) + 1)..Len(child.out) :
          opt' = [opt EXCEPT !.file = SubSeq(child.out, 1, n)]
    /\ UNCHANGED <<pc, exc, in_block, child, result, rendered, shell_frame>>

\* the child ends, all of its output written
ChildExit ==
    /\ pc \in {"s_poll", "s_read"}
    /\ ~opt.exited
    /\ opt.file = child.out
    /\ opt' = [opt EXCEPT !.exited = TRUE]
    /\ UNCHANGED <<pc, exc, in_block, child, result, rendered, shell_frame>>

\* process.poll() at the head of the loop; once the child has ended, the
\* last reader.read() and the return of the RunResult
Poll ==
    /\ pc = "s_poll"
    /\ IF ~opt.exited
       THEN /\ pc' = "s_read"
            /\ UNCHANGED <<opt, result>>
       ELSE LET rest == SubSeq(opt.file, opt.offset + 1, Len(opt.file))
            IN  /\ opt' = [opt EXCEPT !.output = @ \o rest,
                                      !.offset = Len(opt.file)]
                /\ result' = RunResult(child.returncode, opt.output \o rest)
                /\ pc' = "returned"
    /\ UNCHANGED <<exc, in_block, child, rendered, shell_frame>>

\* the body of the loop: the chunk the file has gained is added to output
\* and, with stream_output, decoded and written to sys.stdout
ReadChunk ==
    /\ pc = "s_read"
    /\ LET chunk == SubSeq(opt.file, opt.offset + 1, Len(opt.file))
       IN  /\ opt' = [opt EXCEPT !.output = @ \o chunk,
                                 !.offset = Len(opt.file)]
           /\ IF ~opt.stream_output
              THEN pc' = "s_poll" /\ UNCHANGED <<exc, in_block, rendered>>
              ELSE IF Utf8Decode(chunk) = DecodeFail
              THEN Propagate(DecodeError) /\ UNCHANGED rendered
              ELSE /\ rendered' = rendered \o Utf8Decode(chunk)
                   /\ pc' = "s_poll"
                   /\ UNCHANGED <<exc, in_block>>
    /\ UNCHANGED <<child, result, shell_frame>>

NextShell == Popen \/ ChildWrite \/ ChildExit \/ Poll \/ ReadChunk

SpecShell == InitShell /\ [][NextShell]_vars

----------------------------------------------------------------------------
(* Properties of LocalShell.run.                                           *)

\* C29: for every interleaving of the writes of the child with the reads
\* of the parent, LocalShell.run ends with the return of a RunResult whose
\* output is all the child wrote, in order, and whose exit_code is the
\* return code of the child.
C29_FullOutput ==
    (child.spawned /\ pc \in {"returned", "raised"}) =>
        /\ pc = "returned"
        /\ result = RunResult(child.returncode, child.out)

\* what holds of it: a run that returns, returns all the child wrote and
\* its return code; without stream_output every run of a spawned child
\* that ends, returns
C29_ReturnedOutput ==
    /\ pc = "returned" => result = RunResult(child.returncode, child.out)
    /\ (child.spawned /\ ~opt.stream_output) => pc # "raised"
    /\ opt.output = SubSeq(child.out, 1, opt.offset)

\* a run that read the output of the child in two chunks and a last read
C29_ReturnedAfterChunks ==
    /\ pc = "returned"
    /\ opt.stream_output
    /\ child.out = <<97, 195, 169>>
    /\ rendered = <<97>>

====
